---- MODULE Spec2Model ----
(***************************************************************************)
(* A model of the slop_scraper package: the three source extractors, the   *)
(* option merge of SlopScraper.run and the loop that hands each game's     *)
(* merged options to the file sink or the database sink.                   *)
(*                                                                         *)
(* A string is a sequence of one-character strings, so that strip, lower,  *)
(* split, replace and the regular expressions of the extractors are        *)
(* computed character by character.  Texts the code only carries along     *)
(* (the literal descriptions of the knowledge base) are one chunk.         *)
(***************************************************************************)
EXTENDS Integers, Sequences, FiniteSets, TLC

(***************************************************************************)
(* Strings                                                                 *)
(***************************************************************************)
UpperChars == <<"A", "B", "C", "D", "E", "F", "G", "H", "I", "J", "K", "L", "M", "N", "O", "P", "Q", "R", "S", "T", "U", "V", "W", "X", "Y", "Z">>

LowerChars == <<"a", "b", "c", "d", "e", "f", "g", "h", "i", "j", "k", "l", "m", "n", "o", "p", "q", "r", "s", "t", "u", "v", "w", "x", "y", "z">>

DigitChars == {"0", "1", "2", "3", "4", "5", "6", "7", "8", "9"}

SpaceChars == {" ", "\t", "\n"}

Range(s) == {s[i] : i \in DOMAIN s}

\* str.lower() on one character
LowerChar(c) ==
    IF \E i \in DOMAIN UpperChars : UpperChars[i] = c
    THEN LowerChars[CHOOSE i \in DOMAIN UpperChars : UpperChars[i] = c]
    ELSE c

\* str.lower()
Lower(s) == [i \in DOMAIN s |-> LowerChar(s[i])]

\* the regular expression class \s
IsSpace(c) == c \in SpaceChars

\* the regular expression class \w
IsWord(c) == c \in Range(UpperChars) \cup Range(LowerChars) \cup DigitChars \cup {"_"}

\* s[i:] and s[:n] with Python's 0-based slices written 1-based
Drop(s, n) == IF n >= Len(s) THEN <<>> ELSE SubSeq(s, n + 1, Len(s))

Take(s, n) == IF n >= Len(s) THEN s ELSE SubSeq(s, 1, n)

RECURSIVE LStrip(_)
LStrip(s) == IF s # <<>> /\ IsSpace(Head(s)) THEN LStrip(Tail(s)) ELSE s

RECURSIVE RStrip(_)
RStrip(s) ==
    IF s # <<>> /\ IsSpace(s[Len(s)]) THEN RStrip(SubSeq(s, 1, Len(s) - 1)) ELSE s

\* str.strip()
Strip(s) == RStrip(LStrip(s))

\* s.startswith(p)
StartsWith(s, p) == Len(p) <= Len(s) /\ SubSeq(s, 1, Len(p)) = p

\* the 1-based positions at which sub occurs in s
Occurrences(sub, s) ==
    {i \in 1..(Len(s) - Len(sub) + 1) : SubSeq(s, i, i + Len(sub) - 1) = sub}

\* sub in s
Contains(sub, s) == Occurrences(sub, s) # {}

\* s.find(sub), 1-based, 0 when absent
Find(sub, s) ==
    IF Contains(sub, s)
    THEN CHOOSE i \in Occurrences(sub, s) : \A j \in Occurrences(sub, s) : i <= j
    ELSE 0

\* s.split(sep, 1) for a separator that occurs in s
SplitOnce(s, sep) ==
    LET i == Find(sep, s)
    IN  <<SubSeq(s, 1, i - 1), Drop(s, i + Len(sep) - 1)>>

\* s.replace(old, new, 1)
ReplaceFirst(s, old, new) ==
    IF old = <<>> THEN new \o s
    ELSE IF ~Contains(old, s) THEN s
    ELSE LET i == Find(old, s)
         IN  SubSeq(s, 1, i - 1) \o new \o Drop(s, i + Len(old) - 1)

\* s.replace(old, new) for a non-empty old
RECURSIVE ReplaceAll(_, _, _)
ReplaceAll(s, old, new) ==
    IF old = <<>> \/ ~Contains(old, s) THEN s
    ELSE LET i == Find(old, s)
         IN  SubSeq(s, 1, i - 1) \o new
             \o ReplaceAll(Drop(s, i + Len(old) - 1), old, new)

(***************************************************************************)
(* The knowledge base of fetch_game_specific_options                       *)
(***************************************************************************)
source_engine_options == <<
    [command |-> <<"-", "n", "o", "v", "i", "d">>,
     description |-> <<"Skip intro videos when starting the game">>,
     source |-> "Common Source Engine"],
    [command |-> <<"-", "c", "o", "n", "s", "o", "l", "e">>,
     description |-> <<"Enable developer console">>,
     source |-> "Common Source Engine"],
    [command |-> <<"-", "w", "i", "n", "d", "o", "w", "e", "d">>,
     description |-> <<"Run the game in windowed mode">>,
     source |-> "Common Source Engine"],
    [command |-> <<"-", "f", "u", "l", "l", "s", "c", "r", "e", "e", "n">>,
     description |-> <<"Run the game in fullscreen mode">>,
     source |-> "Common Source Engine"],
    [command |-> <<"-", "n", "o", "b", "o", "r", "d", "e", "r">>,
     description |-> <<"Run the game in borderless windowed mode">>,
     source |-> "Common Source Engine"]
>>

unity_engine_options == <<
    [command |-> <<"-", "s", "c", "r", "e", "e", "n", "-", "w", "i", "d", "t", "h">>,
     description |-> <<"Set screen width (e.g., -screen-width 1920)">>,
     source |-> "Common Unity Engine"],
    [command |-> <<"-", "s", "c", "r", "e", "e", "n", "-", "h", "e", "i", "g", "h", "t">>,
     description |-> <<"Set screen height (e.g., -screen-height 1080)">>,
     source |-> "Common Unity Engine"],
    [command |-> <<"-", "p", "o", "p", "u", "p", "w", "i", "n", "d", "o", "w">>,
     description |-> <<"Run in borderless windowed mode">>,
     source |-> "Common Unity Engine"],
    [command |-> <<"-", "w", "i", "n", "d", "o", "w", "-", "m", "o", "d", "e">>,
     description |-> <<"Set window mode (values: exclusive, windowed, borderless)">>,
     source |-> "Common Unity Engine"]
>>

unreal_engine_options == <<
    [command |-> <<"-", "w", "i", "n", "d", "o", "w", "e", "d">>,
     description |-> <<"Run the game in windowed mode">>,
     source |-> "Common Unreal Engine"],
    [command |-> <<"-", "f", "u", "l", "l", "s", "c", "r", "e", "e", "n">>,
     description |-> <<"Run the game in fullscreen mode">>,
     source |-> "Common Unreal Engine"],
    [command |-> <<"-", "p", "r", "e", "s", "e", "t", "s", "=">>,
     description |-> <<"Specify graphics preset (e.g., -presets=high)">>,
     source |-> "Common Unreal Engine"],
    [command |-> <<"-", "d", "x", "1", "2">>,
     description |-> <<"Force DirectX 12 rendering">>,
     source |-> "Common Unreal Engine"],
    [command |-> <<"-", "d", "x", "1", "1">>,
     description |-> <<"Force DirectX 11 rendering">>,
     source |-> "Common Unreal Engine"]
>>

general_options == <<
    [command |-> <<"-", "f", "p", "s", "_", "m", "a", "x">>,
     description |-> <<"Limit maximum FPS (e.g., -fps_max 144)">>,
     source |-> "Common Launch Option"],
    [command |-> <<"-", "n", "o", "j", "o", "y">>,
     description |-> <<"Disable joystick/controller support">>,
     source |-> "Common Launch Option"],
    [command |-> <<"-", "n", "o", "s", "p", "l", "a", "s", "h">>,
     description |-> <<"Skip splash/intro screens">>,
     source |-> "Common Launch Option"]
>>

kw_counter_strike == <<"c", "o", "u", "n", "t", "e", "r", "-", "s", "t", "r", "i", "k", "e">>
kw_half_life == <<"h", "a", "l", "f", "-", "l", "i", "f", "e">>
kw_portal == <<"p", "o", "r", "t", "a", "l">>
kw_team_fortress == <<"t", "e", "a", "m", " ", "f", "o", "r", "t", "r", "e", "s", "s">>
kw_left_4_dead == <<"l", "e", "f", "t", " ", "4", " ", "d", "e", "a", "d">>
kw_garry == <<"g", "a", "r", "r", "y">>
kw_dota == <<"d", "o", "t", "a">>
kw_unity == <<"u", "n", "i", "t", "y">>
kw_unreal == <<"u", "n", "r", "e", "a", "l">>
kw_UnknownGameTitle == <<"U", "n", "k", "n", "o", "w", "n", " ", "G", "a", "m", "e", " ", "T", "i", "t", "l", "e">>

(***************************************************************************)
(* Results of a call: a returned value or a raised exception, with the     *)
(* trace of pauses and requests the call made.                             *)
(***************************************************************************)
Returned(v, tr) == [raised |-> FALSE, error |-> "", value |-> v, trace |-> tr]

Raised(e, tr) == [raised |-> TRUE, error |-> e, value |-> <<>>, trace |-> tr]

\* one time.sleep(rate_limit)
SleepEvent == [ev |-> "sleep", url |-> <<>>]

\* one requests.get(url)
GetEvent(url) == [ev |-> "get", url |-> url]

\* Python's binding of a keyword call: every keyword names a parameter and
\* every parameter without a default is given
Binds(kwargs, params, required) == kwargs \subseteq params /\ required \subseteq kwargs

(***************************************************************************)
(* The cache: string app id -> metadata blob                               *)
(***************************************************************************)
\* str(app_id), the key the cache is written and read under
StrKey(app_id) == [type |-> "str", val |-> app_id]

\* app_id as the game record carries it
IntKey(app_id) == [type |-> "int", val |-> app_id]

\* the {} default of cache.get
EmptyBlob ==
    [kind |-> "dict", has_title |-> FALSE, title_is_str |-> TRUE,
     title |-> <<>>, body |-> <<>>]

\* cache.get(str(app_id), {})
CacheGet(cache, app_id) ==
    IF StrKey(app_id) \in DOMAIN cache THEN cache[StrKey(app_id)] ELSE EmptyBlob

\* app_id in cache
AppIdInCache(cache, app_id) == IntKey(app_id) \in DOMAIN cache

\* str(blob): the text the engine keywords are searched in
Repr(blob) ==
    IF blob.kind = "dict"
    THEN <<"{">>
         \o (IF blob.has_title
             THEN <<"'", "t", "i", "t", "l", "e", "'", ":", " ", "'">> \o blob.title \o <<"'", ",", " ">>
             ELSE <<>>)
         \o blob.body \o <<"}">>
    ELSE blob.body

(***************************************************************************)
(* fetch_game_specific_options                                             *)
(***************************************************************************)
SourceFranchises ==
    <<kw_counter_strike, kw_half_life, kw_portal, kw_team_fortress,
      kw_left_4_dead, kw_garry, kw_dota>>

\* the title the classification reads: the parameter is overwritten from the cache
DerivedTitle(app_id, title, cache) ==
    IF CacheGet(cache, app_id).has_title
    THEN CacheGet(cache, app_id).title
    ELSE kw_UnknownGameTitle

MatchesSource(lower_title) ==
    \E i \in DOMAIN SourceFranchises : Contains(SourceFranchises[i], lower_title)

MatchesEngine(kw, lower_title, app_id, cache) ==
    \/ Contains(kw, lower_title)
    \/ /\ AppIdInCache(cache, app_id)
       /\ Contains(kw, Lower(Repr(CacheGet(cache, app_id))))

EngineBundle(lower_title, app_id, cache) ==
    IF MatchesSource(lower_title) THEN source_engine_options
    ELSE IF MatchesEngine(kw_unity, lower_title, app_id, cache) THEN unity_engine_options
    ELSE IF MatchesEngine(kw_unreal, lower_title, app_id, cache) THEN unreal_engine_options
    ELSE <<>>

fetch_game_specific_options(app_id, title, cache) ==
    IF CacheGet(cache, app_id).kind # "dict"
    THEN Raised("AttributeError", <<>>)       \* .get on a blob that is no dict
    ELSE IF CacheGet(cache, app_id).has_title /\ ~CacheGet(cache, app_id).title_is_str
    THEN Raised("AttributeError", <<>>)       \* .lower() on a title that is no str
    ELSE Returned(
           EngineBundle(Lower(DerivedTitle(app_id, title, cache)), app_id, cache)
             \o general_options,
           <<>>)

(***************************************************************************)
(* The merge of SlopScraper.run                                            *)
(***************************************************************************)
\* the command as it is written, neither trimmed nor lower-cased
ExactCommand(command) == command

\* option['command'].strip().lower()
Normalize(command) == Lower(Strip(command))

RECURSIVE DedupFrom(_, _, _)
DedupFrom(all_opts, seen_commands, unique) ==
    IF all_opts = <<>> THEN unique
    ELSE IF Normalize(Head(all_opts).command) \notin seen_commands
    THEN DedupFrom(Tail(all_opts),
                   seen_commands \cup {Normalize(Head(all_opts).command)},
                   Append(unique, Head(all_opts)))
    ELSE DedupFrom(Tail(all_opts), seen_commands, unique)

\* the last record of each command kept instead of the first
RECURSIVE KeepLast(_)
KeepLast(all_opts) ==
    IF all_opts = <<>> THEN <<>>
    ELSE (IF \E i \in 2..Len(all_opts) :
                Lower(Strip(all_opts[i].command)) = Lower(Strip(Head(all_opts).command))
          THEN <<>>
          ELSE <<Head(all_opts)>>)
         \o KeepLast(Tail(all_opts))

Deduplicate(all_opts) == DedupFrom(all_opts, {}, <<>>)

(***************************************************************************)
(* The option pattern shared by the extractors:                            *)
(*   (?:^|\s)(-{1,2}[\w\-]+|\+[\w\-]+|\/[\w\-]+)(?:\s|$)                   *)
(***************************************************************************)
IsTokenChar(c) == IsWord(c) \/ c = "-"

\* the length of the longest run of [\w\-] that starts at position i
RECURSIVE RunLen(_, _)
RunLen(s, i) == IF i <= Len(s) /\ IsTokenChar(s[i]) THEN 1 + RunLen(s, i + 1) ELSE 0

\* the length of the group matched at position g (0 when none): a sign, then
\* the whole run of [\w\-], then white space or the end of the text
GroupLen(s, g) ==
    IF g > Len(s) \/ g < 1 THEN 0
    ELSE IF /\ s[g] \in {"-", "+", "/"}
            /\ RunLen(s, g + 1) >= 1
            /\ (g + RunLen(s, g + 1) + 1 > Len(s) \/ IsSpace(s[g + RunLen(s, g + 1) + 1]))
    THEN RunLen(s, g + 1) + 1
    ELSE 0

\* where the group of a match that starts at position i begins (0 when none)
GroupStart(s, i) ==
    IF i = 1 /\ GroupLen(s, 1) > 0 THEN 1
    ELSE IF IsSpace(s[i]) /\ GroupLen(s, i + 1) > 0 THEN i + 1
    ELSE 0

\* re.finditer(pattern, s): group 1 of the matches, left to right, the matches
\* not overlapping (a match consumes the white space that ends it)
RECURSIVE OptionMatchesFrom(_, _)
OptionMatchesFrom(s, i) ==
    IF i > Len(s) THEN <<>>
    ELSE IF GroupStart(s, i) = 0 THEN OptionMatchesFrom(s, i + 1)
    ELSE <<SubSeq(s, GroupStart(s, i), GroupStart(s, i) + GroupLen(s, GroupStart(s, i)) - 1)>>
         \o OptionMatchesFrom(s, GroupStart(s, i) + GroupLen(s, GroupStart(s, i)) + 1)

OptionMatches(s) == OptionMatchesFrom(s, 1)

\* re.search(r'(-{1,2}\w+)', s): the length of the match at position i (0: none)
RECURSIVE WordRunLen(_, _)
WordRunLen(s, i) == IF i <= Len(s) /\ IsWord(s[i]) THEN 1 + WordRunLen(s, i + 1) ELSE 0

DashTokenLen(s, i) ==
    IF i > Len(s) \/ s[i] # "-" THEN 0
    ELSE IF i + 1 <= Len(s) /\ s[i + 1] = "-" /\ WordRunLen(s, i + 2) >= 1
    THEN 2 + WordRunLen(s, i + 2)
    ELSE IF WordRunLen(s, i + 1) >= 1 THEN 1 + WordRunLen(s, i + 1)
    ELSE 0

\* the leftmost match of (-{1,2}\w+) in s, <<>> when there is none
DashToken(s) ==
    IF \E i \in DOMAIN s : DashTokenLen(s, i) > 0
    THEN LET i == CHOOSE k \in DOMAIN s :
                    /\ DashTokenLen(s, k) > 0
                    /\ \A j \in 1..(k - 1) : DashTokenLen(s, j) = 0
         IN  SubSeq(s, i, i + DashTokenLen(s, i) - 1)
    ELSE <<>>

(***************************************************************************)
(* fetch_pcgamingwiki_launch_options                                       *)
(*                                                                         *)
(* A parsed page: sections maps the section ids found on the page to       *)
(* [parent_is_heading, table, list], the table and the list being the      *)
(* next ones after the section's parent; a row is the texts of its td      *)
(* cells, a list item its text; code_blocks are [text, parent_text] and    *)
(* paragraphs the texts of the p tags.                                     *)
(***************************************************************************)
potential_section_ids ==
    <<"Command_line_arguments", "Launch_options", "Launch_commands", "Parameters",
      "Launch_parameters", "Command-line_arguments", "Command_line_parameters",
      "Steam_launch_options">>

NoDescription == <<"No description available">>

\* the en dash U+2013, one character
EnDash == "U+2013"

WikiOption(command, description) ==
    [command |-> command, description |-> description, source |-> "PCGamingWiki"]

\* Method 1, one table: the rows after the first with two cells or more and a
\* first cell that is not empty once stripped
RECURSIVE TableRows(_)
TableRows(rows) ==
    IF rows = <<>> THEN <<>>
    ELSE (IF Len(Head(rows)) >= 2 /\ Strip(Head(rows)[1]) # <<>>
          THEN <<WikiOption(Strip(Head(rows)[1]), Strip(Head(rows)[2]))>>
          ELSE <<>>)
         \o TableRows(Tail(rows))

SectionTable(page, section_id) ==
    IF /\ section_id \in DOMAIN page.sections
       /\ page.sections[section_id].parent_is_heading
       /\ page.sections[section_id].table.present
       /\ page.sections[section_id].table.wikitable
    THEN TableRows(Drop(page.sections[section_id].table.rows, 1))
    ELSE <<>>

RECURSIVE Method1(_, _)
Method1(page, ids) ==
    IF ids = <<>> THEN <<>>
    ELSE SectionTable(page, Head(ids)) \o Method1(page, Tail(ids))

\* Method 2, one list item: the command and the description split off its text
ItemCommand(text) ==
    IF Contains(<<":">>, text) THEN Strip(SplitOnce(text, <<":">>)[1])
    ELSE IF Contains(<<" ", "-", " ">>, text) THEN Strip(SplitOnce(text, <<" ", "-", " ">>)[1])
    ELSE IF Contains(<<" ", EnDash, " ">>, text)
    THEN Strip(SplitOnce(text, <<" ", EnDash, " ">>)[1])
    ELSE IF DashToken(text) # <<>> THEN DashToken(text)
    ELSE text

ItemDescription(text) ==
    IF Contains(<<":">>, text) THEN Strip(SplitOnce(text, <<":">>)[2])
    ELSE IF Contains(<<" ", "-", " ">>, text) THEN Strip(SplitOnce(text, <<" ", "-", " ">>)[2])
    ELSE IF Contains(<<" ", EnDash, " ">>, text)
    THEN Strip(SplitOnce(text, <<" ", EnDash, " ">>)[2])
    ELSE IF DashToken(text) # <<>> THEN Strip(ReplaceAll(text, DashToken(text), <<>>))
    ELSE NoDescription

\* every list item kept, with or without a command
KeepAnyItem(cmd) == TRUE

\* if cmd and cmd.strip()
KeepItem(cmd) == cmd # <<>> /\ Strip(cmd) # <<>>

RECURSIVE ListItems(_)
ListItems(items) ==
    IF items = <<>> THEN <<>>
    ELSE (IF KeepItem(ItemCommand(Strip(Head(items))))
          THEN <<WikiOption(ItemCommand(Strip(Head(items))),
                            ItemDescription(Strip(Head(items))))>>
          ELSE <<>>)
         \o ListItems(Tail(items))

SectionList(page, section_id) ==
    IF /\ section_id \in DOMAIN page.sections
       /\ page.sections[section_id].list.present
    THEN ListItems(page.sections[section_id].list.items)
    ELSE <<>>

RECURSIVE Method2(_, _)
Method2(page, ids) ==
    IF ids = <<>> THEN <<>>
    ELSE SectionList(page, Head(ids)) \o Method2(page, Tail(ids))

\* Method 3: the code and pre blocks whose stripped text starts with -, / or +
RECURSIVE Method3(_)
Method3(blocks) ==
    IF blocks = <<>> THEN <<>>
    ELSE (IF \E sign \in {"-", "/", "+"} : StartsWith(Strip(Head(blocks).text), <<sign>>)
          THEN <<WikiOption(
                   Strip(Head(blocks).text),
                   IF Len(Head(blocks).parent_text) > Len(Strip(Head(blocks).text))
                   THEN Strip(ReplaceFirst(Head(blocks).parent_text,
                                           Strip(Head(blocks).text), <<>>))
                   ELSE NoDescription)>>
          ELSE <<>>)
         \o Method3(Tail(blocks))

\* Method 4: the option pattern in the text of every p and li tag
RECURSIVE PotentialCommands(_)
PotentialCommands(texts) ==
    IF texts = <<>> THEN <<>>
    ELSE [i \in DOMAIN OptionMatches(Head(texts)) |->
            WikiOption(OptionMatches(Head(texts))[i], Head(texts))]
         \o PotentialCommands(Tail(texts))

RECURSIVE DedupExact(_, _)
DedupExact(cmds, seen_commands) ==
    IF cmds = <<>> THEN <<>>
    ELSE IF Head(cmds).command \notin seen_commands
    THEN <<Head(cmds)>> \o DedupExact(Tail(cmds), seen_commands \cup {Head(cmds).command})
    ELSE DedupExact(Tail(cmds), seen_commands)

\* the texts of the li tags of the page: the items of the lists
RECURSIVE AllListItems(_, _)
AllListItems(page, ids) ==
    IF ids = <<>> THEN <<>>
    ELSE (IF Head(ids) \in DOMAIN page.sections /\ page.sections[Head(ids)].list.present
          THEN page.sections[Head(ids)].list.items
          ELSE <<>>)
         \o AllListItems(page, Tail(ids))

\* find_all(['p', 'li']): the paragraphs of a page come before its lists
Method4(page) ==
    DedupExact(
      PotentialCommands(page.paragraphs \o AllListItems(page, potential_section_ids)), {})

\* every method run, whatever the methods before it found
ParseEveryMethod(page) ==
    Method1(page, potential_section_ids) \o Method2(page, potential_section_ids)
    \o Method3(page.code_blocks) \o Method4(page)

\* the options of a page: each method runs only while options is still empty
ParseWikiPage(page) ==
    IF Method1(page, potential_section_ids) # <<>>
    THEN Method1(page, potential_section_ids)
    ELSE IF Method2(page, potential_section_ids) # <<>>
    THEN Method2(page, potential_section_ids)
    ELSE IF Method3(page.code_blocks) # <<>> THEN Method3(page.code_blocks)
    ELSE Method4(page)

\* format_game_title_for_wiki: the replacements, then urllib.parse.quote
HexCode(c) ==
    CASE c = " " -> <<"2", "0">>
      [] c = "!" -> <<"2", "1">>
      [] c = "&" -> <<"2", "6">>
      [] c = "'" -> <<"2", "7">>
      [] c = "+" -> <<"2", "B">>
      [] c = ":" -> <<"3", "A">>
      [] c = "\t" -> <<"0", "9">>
      [] c = "\n" -> <<"0", "A">>
      [] OTHER -> <<"?", "?">>   \* no other character occurs in the titles of the model

RECURSIVE Quote(_)
Quote(s) ==
    IF s = <<>> THEN <<>>
    ELSE (IF IsWord(Head(s)) \/ Head(s) \in {".", "-", "~", "/"}
          THEN <<Head(s)>>
          ELSE <<"%">> \o HexCode(Head(s)))
         \o Quote(Tail(s))

format_game_title_for_wiki(title) ==
    Quote(
      ReplaceAll(
        ReplaceAll(
          ReplaceAll(
            ReplaceAll(
              ReplaceAll(title, <<" ">>, <<"_">>),
              <<":">>, <<>>),
            <<"&">>, <<"a", "n", "d">>),
          <<"'">>, <<>>),
        <<"-">>, <<"_">>))

(***************************************************************************)
(* The web: a response is a parsed page (status 200), a 200 whose parse    *)
(* raises, another status, or a request that raises (network, timeout).    *)
(***************************************************************************)
EmptyPage == [sections |-> <<>>, code_blocks |-> <<>>, paragraphs |-> <<>>]

PageResponse(page) == [kind |-> "page", status |-> 200, page |-> page]

StatusResponse(status) == [kind |-> "status", status |-> status, page |-> EmptyPage]

UnparseableResponse == [kind |-> "unparseable", status |-> 200, page |-> EmptyPage]

NetworkError == [kind |-> "neterr", status |-> 0, page |-> EmptyPage]

\* requests.get(url) against a site that holds the pages of web
WebGet(web, url) == IF url \in DOMAIN web THEN web[url] ELSE StatusResponse(404)

\* the title cut at its last colon instead of its first
RECURSIVE BeforeLastColon(_)
BeforeLastColon(game_title) ==
    IF game_title = <<>> THEN <<>>
    ELSE IF game_title[Len(game_title)] = ":" THEN Take(game_title, Len(game_title) - 1)
    ELSE BeforeLastColon(Take(game_title, Len(game_title) - 1))

AltTitleAtLastColon(game_title) ==
    IF Contains(<<":">>, game_title) THEN BeforeLastColon(game_title) ELSE <<>>

\* game_title.split(':')[0] if ':' in game_title else None (<<>> stands for None:
\* both are falsy)
AltTitle(game_title) ==
    IF Contains(<<":">>, game_title) THEN SplitOnce(game_title, <<":">>)[1] ELSE <<>>

RECURSIVE fetch_pcgamingwiki_launch_options(_, _, _)
RECURSIVE WikiTry(_, _)

\* the try block: the request, the page methods, the retry on 404
WikiTry(game_title, web) ==
    LET url  == format_game_title_for_wiki(game_title)
        resp == WebGet(web, url)
    IN  IF resp.kind = "neterr" THEN Raised("RequestException", <<GetEvent(url)>>)
        ELSE IF resp.kind = "unparseable" THEN Raised("ParserError", <<GetEvent(url)>>)
        ELSE IF resp.status = 200
        THEN Returned(ParseWikiPage(resp.page), <<GetEvent(url)>>)
        ELSE IF resp.status = 404
        THEN IF AltTitle(game_title) # <<>> /\ AltTitle(game_title) # game_title
             THEN LET inner == fetch_pcgamingwiki_launch_options(AltTitle(game_title), 0, web)
                  IN  IF inner.raised
                      THEN Raised(inner.error, <<GetEvent(url)>> \o inner.trace)
                      ELSE Returned(inner.value, <<GetEvent(url)>> \o inner.trace)
             ELSE Returned(<<>>, <<GetEvent(url)>>)
        ELSE Returned(<<>>, <<GetEvent(url)>>)

\* rate_limit 0 stands for None (no pause); except Exception returns []
fetch_pcgamingwiki_launch_options(game_title, rate_limit, web) ==
    LET pause == IF rate_limit # 0 THEN <<SleepEvent>> ELSE <<>>
        body  == WikiTry(game_title, web)
    IN  IF body.raised
        THEN Returned(<<>>, pause \o body.trace)
        ELSE Returned(body.value, pause \o body.trace)

(***************************************************************************)
(* fetch_steam_community_launch_options                                    *)
(*                                                                         *)
(* site is [listing, pages]: the response to the guide listing of the app, *)
(* its guides being [has_title, title, has_link, url], and the response    *)
(* to each guide url, its page [has_body, code_blocks, paragraphs] with    *)
(* code blocks [text, prev_p, next_p].                                     *)
(***************************************************************************)
guide_keywords ==
    <<<<"l", "a", "u", "n", "c", "h">>,
      <<"c", "o", "m", "m", "a", "n", "d">>,
      <<"o", "p", "t", "i", "o", "n">>,
      <<"p", "a", "r", "a", "m", "e", "t", "e", "r">>,
      <<"a", "r", "g", "u", "m", "e", "n", "t">>,
      <<"f", "p", "s">>,
      <<"p", "e", "r", "f", "o", "r", "m", "a", "n", "c", "e">>>>

SeeGuidePrefix == <<"S", "e", "e", " ", "g", "u", "i", "d", "e", ":", " ">>

DescriptionLimit == 200

CommunityOption(command, description) ==
    [command |-> command, description |-> description, source |-> "Steam Community"]

\* desc[:200] + "..." if len(desc) > 200 else desc
Truncate(desc) ==
    IF Len(desc) > DescriptionLimit
    THEN Take(desc, DescriptionLimit) \o <<".", ".", ".">>
    ELSE desc

\* the guides of the listing kept as relevant: a title with a keyword, and a link
IsRelevantGuide(guide) ==
    /\ guide.has_title
    /\ \E i \in DOMAIN guide_keywords : Contains(guide_keywords[i], Lower(guide.title))
    /\ guide.has_link

RelevantGuides(guides) == SelectSeq(guides, IsRelevantGuide)

HasSign(text) == \E sign \in {"-", "+", "/"} : Contains(<<sign>>, text)

\* the description of a code block: the paragraph before it, else the one after
BlockDescription(block, guide) ==
    IF block.prev_p.present THEN Strip(block.prev_p.text)
    ELSE IF block.next_p.present THEN Strip(block.next_p.text)
    ELSE <<"Found in guide: ">> \o guide.title

\* Method 1 of a guide: the option pattern in its code and pre blocks
RECURSIVE GuideCodeOptions(_, _)
GuideCodeOptions(blocks, guide) ==
    IF blocks = <<>> THEN <<>>
    ELSE (IF HasSign(Strip(Head(blocks).text))
          THEN [i \in DOMAIN OptionMatches(Strip(Head(blocks).text)) |->
                  CommunityOption(OptionMatches(Strip(Head(blocks).text))[i],
                                  Truncate(BlockDescription(Head(blocks), guide)))]
          ELSE <<>>)
         \o GuideCodeOptions(Tail(blocks), guide)

\* Method 2 of a guide: the option pattern in p and li texts that say "launch"
RECURSIVE GuideTextOptions(_)
GuideTextOptions(texts) ==
    IF texts = <<>> THEN <<>>
    ELSE (IF Contains(<<"l", "a", "u", "n", "c", "h">>, Lower(Strip(Head(texts))))
             /\ HasSign(Strip(Head(texts)))
          THEN [i \in DOMAIN OptionMatches(Strip(Head(texts))) |->
                  CommunityOption(OptionMatches(Strip(Head(texts)))[i],
                                  Truncate(Strip(Head(texts))))]
          ELSE <<>>)
         \o GuideTextOptions(Tail(texts))

\* not any(opt['source'] == 'Steam Community' for opt in options)
NoCommunityOption(options) ==
    ~\E i \in DOMAIN options : options[i].source = "Steam Community"

\* options after one fetched guide page: Method 2 runs when options, as
\* accumulated over the guides so far and Method 1 of this one, holds none
GuidePageOptions(page, guide, options) ==
    IF ~page.has_body THEN options
    ELSE IF NoCommunityOption(options \o GuideCodeOptions(page.code_blocks, guide))
    THEN options \o GuideCodeOptions(page.code_blocks, guide)
         \o GuideTextOptions(page.paragraphs)
    ELSE options \o GuideCodeOptions(page.code_blocks, guide)

GuidePause(rate_limit) == IF rate_limit # 0 THEN <<SleepEvent>> ELSE <<>>

\* the loop over relevant_guides[:3]; a guide that raises is skipped
RECURSIVE ProcessGuides(_, _, _, _, _)
ProcessGuides(guides, options, trace, rate_limit, pages) ==
    IF guides = <<>> THEN [options |-> options, trace |-> trace]
    ELSE LET guide == Head(guides)
             resp  == WebGet(pages, guide.url)
             seen  == trace \o GuidePause(rate_limit) \o <<GetEvent(guide.url)>>
         IN  IF resp.kind \in {"neterr", "unparseable"} \/ resp.status # 200
             THEN ProcessGuides(Tail(guides), options, seen, rate_limit, pages)
             ELSE ProcessGuides(Tail(guides),
                                GuidePageOptions(resp.page, guide, options),
                                seen, rate_limit, pages)

GuidesProcessed == 3

\* every relevant guide of the listing, however many
EveryGuide(guides) == guides

\* relevant_guides[:3]
FirstGuides(guides) == Take(guides, GuidesProcessed)

\* no reference to any guide
NoReferences(guides) == <<>>

\* "See guide: <title>", one per guide of relevant_guides[:3]
GuideReferences(guides) ==
    [i \in DOMAIN guides |->
        CommunityOption(SeeGuidePrefix \o guides[i].title,
                        <<"This guide may contain launch options: ">> \o guides[i].url)]

ListingUrl(app_id) == <<"https://steamcommunity.com/app/", ToString(app_id), "/guides/">>

\* the try block
CommunityTry(app_id, rate_limit, site) ==
    LET get   == <<GetEvent(ListingUrl(app_id))>>
        first == FirstGuides(RelevantGuides(site.listing.guides))
        done  == ProcessGuides(first, <<>>, get, rate_limit, site.pages)
    IN  IF site.listing.kind = "neterr" THEN Raised("RequestException", get)
        ELSE IF site.listing.kind = "unparseable" THEN Raised("ParserError", get)
        ELSE IF site.listing.status # 200 THEN Returned(<<>>, get)
        ELSE IF done.options = <<>> /\ RelevantGuides(site.listing.guides) # <<>>
        THEN Returned(GuideReferences(first), done.trace)
        ELSE Returned(done.options, done.trace)

fetch_steam_community_launch_options(app_id, rate_limit, site) ==
    LET pause == IF rate_limit # 0 THEN <<SleepEvent>> ELSE <<>>
        body  == CommunityTry(app_id, rate_limit, site)
    IN  IF body.raised
        THEN Returned(<<>>, pause \o body.trace)
        ELSE Returned(body.value, pause \o body.trace)

(***************************************************************************)
(* Inputs: game titles, cache contents, wiki pages and guide sites         *)
(***************************************************************************)
MaxRows == 2

MaxItems == 1

MaxGuides == 4

MaxGames == 2

SeqsUpTo(S, n) == UNION {[1..k -> S] : k \in 0..n}

T_CounterStrike2 == <<"C", "o", "u", "n", "t", "e", "r", "-", "S", "t", "r", "i", "k", "e", " ", "2">>

T_Dota2 == <<"D", "o", "t", "a", " ", "2">>

T_Subnautica == <<"S", "u", "b", "n", "a", "u", "t", "i", "c", "a">>

T_UnityOfCommand == <<"U", "n", "i", "t", "y", " ", "o", "f", " ", "C", "o", "m", "m", "a", "n", "d">>

T_UnrealGold == <<"U", "n", "r", "e", "a", "l", " ", "G", "o", "l", "d">>

T_PortalUnity == <<"P", "o", "r", "t", "a", "l", " ", "U", "n", "i", "t", "y">>

T_HalfLifeUnreal == <<"H", "a", "l", "f", "-", "L", "i", "f", "e", " ", "U", "n", "r", "e", "a", "l">>

Body_Unity == <<"'", "e", "n", "g", "i", "n", "e", "'", ":", " ", "'", "U", "n", "i", "t", "y", "'">>

Body_Unreal == <<"'", "e", "n", "g", "i", "n", "e", "'", ":", " ", "'", "U", "n", "r", "e", "a", "l", "'">>

Body_Plain == <<"'", "t", "y", "p", "e", "'", ":", " ", "'", "g", "a", "m", "e", "'">>

W_Foo == <<"F", "o", "o">>

W_FooBar == <<"F", "o", "o", ":", " ", "B", "a", "r">>

W_FooBarBaz == <<"F", "o", "o", ":", " ", "B", "a", "r", ":", " ", "B", "a", "z">>

W_ColonBar == <<":", " ", "B", "a", "r">>

W_FooColon == <<"F", "o", "o", ":">>

StaticTitles ==
    {T_CounterStrike2, T_Dota2, T_Subnautica, T_UnityOfCommand, T_UnrealGold,
     T_PortalUnity, T_HalfLifeUnreal}

DictBlob(has_title, title, body) ==
    [kind |-> "dict", has_title |-> has_title, title_is_str |-> TRUE,
     title |-> title, body |-> body]

\* what a cache file can hold for one app id: store metadata (with or without
\* an engine word, with or without a 'title' item), a 'title' that is no
\* string (null), a value that is no object
Blobs ==
    {DictBlob(FALSE, <<>>, Body_Plain),
     DictBlob(FALSE, <<>>, Body_Unity),
     DictBlob(FALSE, <<>>, Body_Unreal),
     DictBlob(TRUE, T_CounterStrike2, Body_Plain),
     DictBlob(TRUE, T_UnityOfCommand, Body_Unreal),
     DictBlob(TRUE, T_HalfLifeUnreal, Body_Unity),
     [kind |-> "dict", has_title |-> TRUE, title_is_str |-> FALSE,
      title |-> <<>>, body |-> Body_Plain],
     [kind |-> "other", has_title |-> FALSE, title_is_str |-> TRUE,
      title |-> <<>>, body |-> <<>>]}

AppIds == {570, 730}

\* the caches: string keys only, as json.load and get_steam_game_list make them
Caches == UNION {[K -> Blobs] : K \in SUBSET {StrKey(730)}}

CellTexts == {<<" ">>, <<" ", "-", "W", " ">>}

DataRows == {<<c, <<"d">>>> : c \in CellTexts} \cup {<<<<"-", "w">>>>}

NoTable == [present |-> FALSE, wikitable |-> FALSE, rows |-> <<>>]

\* the first row of a table is its header row: no td cell
WikiTables ==
    {NoTable}
    \cup {[present |-> TRUE, wikitable |-> TRUE, rows |-> <<<<>>>> \o r] :
            r \in SeqsUpTo(DataRows, MaxRows)}
    \cup {[present |-> TRUE, wikitable |-> FALSE,
           rows |-> <<<<>>, <<<<"-", "w">>, <<"d">>>>>>]}

ItemTexts ==
    {<<"-", "a", ":", " ", "x">>,
     <<" ">>,
     <<":", "x">>,
     <<"u", "s", "e", " ", "-", "-", "b", " ", EnDash, " ", "y">>}

NoList == [present |-> FALSE, items |-> <<>>]

WikiLists ==
    {NoList} \cup {[present |-> TRUE, items |-> it] : it \in SeqsUpTo(ItemTexts, MaxItems)}

WikiSections ==
    {[parent_is_heading |-> TRUE, table |-> t, list |-> l] :
        t \in WikiTables, l \in WikiLists}
    \cup {[parent_is_heading |-> FALSE,
           table |-> [present |-> TRUE, wikitable |-> TRUE,
                      rows |-> <<<<>>, <<<<"-", "w">>, <<"d">>>>>>],
           list |-> [present |-> TRUE, items |-> <<<<"-", "a", ":", " ", "x">>>>]]}

CodeBlockSets ==
    {<<>>,
     <<[text |-> <<" ", "+", "x", " ", "y">>,
        parent_text |-> <<"U", "s", "e", "+", "x", " ", "y">>]>>,
     <<[text |-> <<"p", "l", "a", "i", "n">>, parent_text |-> <<"p", "l", "a", "i", "n">>],
       [text |-> <<"/", "k">>, parent_text |-> <<"/", "k">>]>>}

ParagraphSets ==
    {<<>>,
     <<<<"t", "r", "y", " ", "-", "q", " ", "-", "Q", " ", " ", "-", "q">>>>,
     <<<<" ", " ">>>>}

\* the code blocks and the paragraphs of a page
PageTexts ==
    {cp \in CodeBlockSets \X ParagraphSets : cp[1] = <<>> \/ cp[2] = <<>>}

WikiPages ==
    {[sections |-> secs, code_blocks |-> cp[1], paragraphs |-> cp[2]] :
        secs \in {<<>>} \cup {("Launch_options" :> s) : s \in WikiSections},
        cp \in PageTexts}

\* a page with a table, a page with a list only, a page with nothing
SmallPages ==
    {[sections |-> ("Launch_options" :> [parent_is_heading |-> TRUE,
                      table |-> [present |-> TRUE, wikitable |-> TRUE,
                                 rows |-> <<<<>>, <<<<"-", "N", "o", "V", "i", "d">>, <<"d">>>>>>],
                      list |-> NoList]),
      code_blocks |-> <<>>, paragraphs |-> <<>>],
     [sections |-> ("Parameters" :> [parent_is_heading |-> TRUE,
                      table |-> NoTable,
                      list |-> [present |-> TRUE,
                                items |-> <<<<"-", "a", ":", " ", "x">>,
                                            <<"-", "A", " ", ":", "y">>>>]]),
      code_blocks |-> <<>>, paragraphs |-> <<>>],
     EmptyPage}

Failures == {StatusResponse(404), StatusResponse(500), UnparseableResponse, NetworkError}

WikiResponses == {PageResponse(p) : p \in WikiPages} \cup Failures

SmallResponses == {PageResponse(p) : p \in SmallPages} \cup Failures

WikiTitles == {W_Foo, W_FooBar, W_FooBarBaz, W_ColonBar, W_FooColon, T_CounterStrike2}

RateLimits == {0, 2}

\* the sites a title is fetched from: for one title a page of any shape, for
\* every title small pages under the urls of the title and of its prefix
WikiWebs(game_title, rate_limit) ==
    (IF game_title = W_Foo /\ rate_limit = 0
     THEN {(format_game_title_for_wiki(game_title) :> r) : r \in WikiResponses}
     ELSE {})
    \cup {[u \in {format_game_title_for_wiki(game_title),
                  format_game_title_for_wiki(AltTitle(game_title))} |->
             IF u = format_game_title_for_wiki(game_title) THEN r1 ELSE r2] :
            r1 \in SmallResponses, r2 \in SmallResponses}

Guide(title, url) == [has_title |-> TRUE, title |-> title, has_link |-> TRUE, url |-> url]

GuideA == Guide(<<"L", "a", "u", "n", "c", "h", " ", "O", "p", "t", "i", "o", "n", "s">>, <<"a">>)

GuideB == Guide(<<" ", "F", "P", "S", " ", "b", "o", "o", "s", "t">>, <<"b">>)

GuideIrrelevant == Guide(<<"W", "a", "l", "k", "t", "h", "r", "o", "u", "g", "h">>, <<"x">>)

GuideNoLink == [GuideA EXCEPT !.has_link = FALSE]

GuideNoTitle == [GuideA EXCEPT !.has_title = FALSE]

Listings ==
    SeqsUpTo({GuideA, GuideB, GuideIrrelevant}, MaxGuides)
    \cup {<<GuideNoLink, GuideB>>, <<GuideNoTitle>>, <<GuideNoLink>>}

NoParagraph == [present |-> FALSE, text |-> <<>>]

EmptyGuidePage == [has_body |-> FALSE, code_blocks |-> <<>>, paragraphs |-> <<>>]

GuidePages ==
    {[has_body |-> TRUE,
      code_blocks |-> <<[text |-> <<" ", "-", "x", " ", " ", "+", "y", " ">>,
                         prev_p |-> [present |-> TRUE, text |-> <<"U", "s", "e", " ">>],
                         next_p |-> NoParagraph]>>,
      paragraphs |-> <<>>],
     [has_body |-> TRUE,
      code_blocks |-> <<>>,
      paragraphs |-> <<<<"L", "a", "u", "n", "c", "h", " ", "w", "i", "t", "h", " ", "-", "z", " ">>>>],
     [has_body |-> TRUE,
      code_blocks |-> <<[text |-> <<"-", "X">>, prev_p |-> NoParagraph, next_p |-> NoParagraph]>>,
      paragraphs |-> <<<<"l", "a", "u", "n", "c", "h", " ", "-", "t">>>>],
     [has_body |-> TRUE,
      code_blocks |-> <<[text |-> <<"a", "-", "b">>, prev_p |-> NoParagraph, next_p |-> NoParagraph]>>,
      paragraphs |-> <<<<"l", "a", "u", "n", "c", "h", " ", " ">>>>],
     EmptyGuidePage}

GuideFailure(kind, status) == [kind |-> kind, status |-> status, page |-> EmptyGuidePage]

GuideResponses ==
    {PageResponse(p) : p \in GuidePages}
    \cup {GuideFailure("status", 500), GuideFailure("neterr", 0)}

\* the second guide: a page with code options, a page with options in its
\* text only, a page with none, a failure
SecondGuideResponses ==
    {r \in GuideResponses :
        \/ r.kind = "neterr"
        \/ r.kind = "page" /\ (r.page = EmptyGuidePage \/ r.page.paragraphs = <<>>
                                \/ r.page.code_blocks = <<>>)}

\* the answers to the listing that hold guides: up to two guides, and more
ShortListings == {g \in Listings : Len(g) <= 2}

ListingPage(g) == [kind |-> "page", status |-> 200, guides |-> g]

ListingFailures ==
    {[kind |-> "status", status |-> 404, guides |-> <<>>],
     [kind |-> "status", status |-> 500, guides |-> <<>>],
     [kind |-> "unparseable", status |-> 200, guides |-> <<>>],
     [kind |-> "neterr", status |-> 0, guides |-> <<>>]}

ListingResponses == {ListingPage(g) : g \in Listings} \cup ListingFailures

\* the pages of the two guide urls
PagePair(ra, rb) == [u \in {<<"a">>, <<"b">>} |-> IF u = <<"a">> THEN ra ELSE rb]

\* the pairs a long listing is fetched against: both requests failing, both
\* pages empty, options in the code of one guide only
LongListingPairs ==
    {PagePair(GuideFailure("neterr", 0), GuideFailure("neterr", 0)),
     PagePair(PageResponse(EmptyGuidePage), PageResponse(EmptyGuidePage)),
     PagePair(CHOOSE r \in GuideResponses : r.kind = "page" /\ r.page.has_body
                                               /\ r.page.paragraphs = <<>>,
              PageResponse(EmptyGuidePage))}

\* a short listing against every pair of guide responses, a long one against
\* three pairs, a failing listing against one
CommunitySites ==
    {[listing |-> ListingPage(g), pages |-> PagePair(ra, rb)] :
        g \in ShortListings, ra \in GuideResponses, rb \in SecondGuideResponses}
    \cup {[listing |-> ListingPage(g), pages |-> p] :
            g \in Listings \ ShortListings, p \in LongListingPairs}
    \cup {[listing |-> l, pages |-> PagePair(GuideFailure("neterr", 0),
                                             GuideFailure("neterr", 0))] :
            l \in ListingFailures}
(***************************************************************************)
(* The database sink.  The store holds the rows of games (key app_id),     *)
(* launch_options (unique on command, with a generated id) and             *)
(* game_launch_options (unique on the pair), each table a sequence of      *)
(* rows.  What the store does wrong during one save_to_database is given   *)
(* by the outcome of the game upsert and, for every option and every       *)
(* attempt, the outcome of the pair of writes:                             *)
(*   "ok"      both writes land                                            *)
(*   "option"  the option upsert raises, nothing is written                *)
(*   "nodata"  the option upsert lands but returns no row                  *)
(*   "join"    the option upsert lands, the association upsert raises      *)
(***************************************************************************)
EmptyDb == [games |-> <<>>, options |-> <<>>, joins |-> <<>>]

NoFault == [at |-> "none", index |-> 0, times |-> 0]

Attempts == 3

Outcomes == {"ok", "option", "nodata", "join"}

DbFaults(options) ==
    {NoFault, [at |-> "game_error", index |-> 0, times |-> 0],
     [at |-> "game_raise", index |-> 0, times |-> 0]}
    \cup {[at |-> stage, index |-> 1, times |-> Attempts] :
            stage \in IF options = <<>> THEN {} ELSE {"option", "join"}}

\* the positions of the rows of a key: games by app_id, launch_options by
\* command, game_launch_options by the pair
GameRows(db, app_id) == {k \in DOMAIN db.games : db.games[k].app_id = app_id}

OptionRows(db, command) == {k \in DOMAIN db.options : db.options[k].command = command}

JoinRows(db, app_id, option_id) ==
    {k \in DOMAIN db.joins : /\ db.joins[k].game_app_id = app_id
                             /\ db.joins[k].launch_option_id = option_id}

\* upsert(game_data): one row per app_id
UpsertGame(db, game) ==
    IF GameRows(db, game.appid) # {}
    THEN [db EXCEPT !.games =
            [k \in DOMAIN db.games |->
                IF db.games[k].app_id = game.appid
                THEN [app_id |-> game.appid, title |-> game.name]
                ELSE db.games[k]]]
    ELSE [db EXCEPT !.games =
            Append(db.games, [app_id |-> game.appid, title |-> game.name])]

\* an insert of the option that takes no account of the row there is
InsertOption(db, option) ==
    [db EXCEPT !.options =
        Append(db.options,
               [id |-> Len(db.options) + 1, command |-> option.command,
                description |-> option.description, source |-> option.source])]

\* upsert(option_data, on_conflict="command"): the row of the command is
\* updated and keeps its id, a new command gets the next id
UpsertOption(db, option) ==
    IF OptionRows(db, option.command) # {}
    THEN [db EXCEPT !.options =
            [k \in DOMAIN db.options |->
                IF db.options[k].command = option.command
                THEN [db.options[k] EXCEPT !.description = option.description,
                                           !.source = option.source]
                ELSE db.options[k]]]
    ELSE [db EXCEPT !.options =
            Append(db.options,
                   [id |-> Len(db.options) + 1, command |-> option.command,
                    description |-> option.description, source |-> option.source])]

\* option_res.data[0]['id']
OptionId(db, command) ==
    db.options[CHOOSE k \in DOMAIN db.options : db.options[k].command = command].id

\* an insert of the association that takes no account of the row there is
InsertJoin(db, app_id, option) ==
    [db EXCEPT !.joins =
        Append(db.joins, [game_app_id |-> app_id,
                          launch_option_id |-> OptionId(db, option.command)])]

\* upsert(junction_data, on_conflict="game_app_id,launch_option_id")
UpsertJoin(db, app_id, option) ==
    IF JoinRows(db, app_id, OptionId(db, option.command)) # {}
    THEN db
    ELSE [db EXCEPT !.joins =
            Append(db.joins, [game_app_id |-> app_id,
                              launch_option_id |-> OptionId(db, option.command)])]

\* what one attempt leaves in the store
AttemptWrites(db, app_id, option, outcome) ==
    IF outcome = "option" THEN db
    ELSE IF outcome \in {"nodata", "join"} THEN UpsertOption(db, option)
    ELSE UpsertJoin(UpsertOption(db, option), app_id, option)

\* a count at every failed attempt
AnyAttempt(attempt) == attempt \in 1..Attempts

\* if attempt == 2
IsLastAttempt(attempt) == attempt = Attempts

\* for attempt in range(3): one option through its attempts; st is
\* [db, success_count, error_count, attempts], attempts the log of
\* <<position of the option, attempt, outcome>>
RECURSIVE TryOption(_, _, _, _, _, _)
TryOption(st, app_id, option, i, outcomes, attempt) ==
    IF attempt > Attempts THEN st
    ELSE IF outcomes[attempt] = "ok"
    THEN [st EXCEPT !.db = AttemptWrites(st.db, app_id, option, "ok"),
                    !.success_count = st.success_count + 1,
                    !.attempts = Append(st.attempts, <<i, attempt, "ok">>)]
    ELSE TryOption(
           [st EXCEPT !.db = AttemptWrites(st.db, app_id, option, outcomes[attempt]),
                      !.error_count =
                          st.error_count + (IF IsLastAttempt(attempt) THEN 1 ELSE 0),
                      !.attempts = Append(st.attempts, <<i, attempt, outcomes[attempt]>>)],
           app_id, option, i, outcomes, attempt + 1)

\* for option in options
RECURSIVE SaveOptions(_, _, _, _, _)
SaveOptions(st, app_id, options, i, script) ==
    IF i > Len(options) THEN st
    ELSE SaveOptions(TryOption(st, app_id, options[i], i, script[i], 1),
                     app_id, options, i + 1, script)

\* the body of save_to_database: the game row, then the options; nothing
\* more happens when the game upsert reports an error or raises
SaveRun(db, game, options, game_outcome, script) ==
    IF game_outcome # "ok"
    THEN [db |-> db, success_count |-> 0, error_count |-> 0, attempts |-> <<>>]
    ELSE SaveOptions([db |-> UpsertGame(db, game), success_count |-> 0,
                      error_count |-> 0, attempts |-> <<>>],
                     game.appid, options, 1, script)

\* a body without the handler: what is raised in it leaves the function
NoOuterHandler(raised) == raised

\* except Exception as e: print (258-260): nothing leaves the function
OuterHandler(raised) == FALSE

\* does save_to_database raise: the game upsert raising is the exception of
\* the body outside the handler of the attempts
SaveRaises(game_outcome) == OuterHandler(game_outcome = "game_raise")

\* the outcomes a fault of a run stands for
ScriptOf(fault, options) ==
    [i \in DOMAIN options |->
        [a \in 1..Attempts |->
            IF fault.index = i /\ a <= fault.times /\ fault.at \in {"option", "join"}
            THEN fault.at
            ELSE "ok"]]

\* save_to_database: never raises (except Exception around the whole body)
save_to_database(db, game, options, fault) ==
    SaveRun(db, game, options,
            IF fault.at \in {"game_error", "game_raise"} THEN fault.at ELSE "ok",
            ScriptOf(fault, options)).db

\* fetch_steam_launch_options_from_db: the commands of the options joined to
\* the game, none when the query raises
fetch_steam_launch_options_from_db(db, app_id, query_ok) ==
    IF query_ok
    THEN {db.options[k].command :
            k \in {o \in DOMAIN db.options :
                    \E j \in DOMAIN db.joins :
                        /\ db.joins[j].game_app_id = app_id
                        /\ db.joins[j].launch_option_id = db.options[o].id}}
    ELSE {}

(***************************************************************************)
(* The calls SlopScraper.run makes, bound as Python binds keyword calls    *)
(***************************************************************************)
StaticCallBinds ==
    Binds({"title", "app_id", "cache", "test_results"},
          {"app_id", "title", "cache", "test_results", "test_mode"},
          {"app_id", "title", "cache"})

WikiCallBinds ==
    Binds({"game_title", "rate_limit", "debug", "test_results"},
          {"game_title", "rate_limit", "debug", "test_results", "test_mode"},
          {"game_title"})

CommunityCallBinds ==
    Binds({"game_title", "app_id", "rate_limit", "debug", "test_results"},
          {"app_id", "rate_limit", "debug", "test_results", "test_mode"},
          {"app_id"})

SaveGameResultsCallBinds ==
    Binds({"app_id", "title", "options", "output_dir"},
          {"test_mode", "output_dir", "app_id", "title", "options"},
          {"test_mode", "output_dir", "app_id", "title", "options"})

\* save_test_results(self.test_results, self.output_dir): two positional
\* arguments for the three parameters test_mode, output_dir, test_results
BindsPositional(args, params) == Len(args) >= Len(params)

SaveTestResultsCallBinds ==
    BindsPositional(<<"self.test_results", "self.output_dir">>,
                    <<"test_mode", "output_dir", "test_results">>)

\* --rate, the delay handed to the scraper
DefaultRate == 2

\* game['appid'] % 3 == 0
SaveEvery == 3

(***************************************************************************)
(* State                                                                   *)
(***************************************************************************)
VARIABLES
    call,            \* the last direct call of an extractor: arguments and result
    test_mode,       \* self.test_mode after construction
    force_refresh,   \* self.force_refresh
    rate_limit,      \* self.rate_limit
    cache,           \* self.cache
    db,              \* the rows of the store behind self.supabase
    games,           \* the list the game-list provider returned
    gi,              \* the position of the loop in games
    pc,              \* where run is
    all_options,     \* all_options of the game in hand
    unique_options,  \* unique_options of the game in hand
    source_calls,    \* the source calls made for the game in hand
    sink_call,       \* the sink call made for the game in hand
    test_results,    \* self.test_results
    game_files,      \* game_<app_id>.json: app id -> the options written
    summary_file,    \* whether test_results.json was written
    cache_saves,     \* how often save_cache wrote the cache file
    processed,       \* the positions whose loop body ran to its end
    error,           \* the exception run ended with, "" when none
    probe,           \* the last direct call of another function: input and output
    args_test,       \* --test
    args_test_db,    \* --test-db
    supabase,        \* whether self.supabase is a connection
    existing_options,\* what the lookup of the game in hand returned
    signalled,       \* whether SIGINT or SIGTERM was delivered
    exit_code,       \* the exit code of the process, -1 while it runs
    flushed,         \* what an abnormal end handed to its writer: "cache", "summary"
    store_calls      \* the kinds of calls made on the store since construction: "read", "write"

vars ==
    <<call, test_mode, force_refresh, rate_limit, cache, db, games, gi, pc,
      all_options, unique_options, source_calls, sink_call, test_results,
      game_files, summary_file, cache_saves, processed, error, probe, args_test,
      args_test_db, supabase, existing_options, signalled, exit_code,
      flushed, store_calls>>

\* no direct call made yet
NoProbe == [fn |-> "none"]

runVars ==
    <<test_mode, force_refresh, rate_limit, cache, db, games, gi, pc,
      all_options, unique_options, source_calls, sink_call, test_results,
      game_files, summary_file, cache_saves, processed, error, args_test,
      args_test_db, supabase, existing_options, signalled, exit_code,
      flushed, store_calls>>

NoCall ==
    [fn |-> "none", app_id |-> 0, title |-> <<>>, cache |-> <<>>, rate_limit |-> 0,
     web |-> <<>>, site |-> <<>>, result |-> Returned(<<>>, <<>>)]

(***************************************************************************)
(* The inputs of a run                                                     *)
(***************************************************************************)
\* the first three games of the provider's test list
SteamGames ==
    <<[appid |-> 570, name |-> T_Dota2],
      [appid |-> 730, name |-> T_CounterStrike2],
      [appid |-> 264710, name |-> T_Subnautica]>>

\* the lists the provider can return: games of SteamGames in their order
GameLists ==
    {SelectSeq(SteamGames, LAMBDA g : g.appid \in S) :
        S \in {T \in SUBSET {570, 730, 264710} : Cardinality(T) <= MaxGames}}

\* the caches a run starts with: none, store metadata of 730 without a
\* 'title' item, a 'title' item, or an entry that is no object
RunCaches ==
    {<<>>,
     (StrKey(730) :> DictBlob(FALSE, <<>>, Body_Plain)),
     (StrKey(730) :> DictBlob(TRUE, T_CounterStrike2, Body_Plain)),
     (StrKey(730) :> [kind |-> "other", has_title |-> FALSE, title_is_str |-> TRUE,
                      title |-> <<>>, body |-> <<>>])}

\* the store already holds one option of Dota 2
PreloadedDb ==
    save_to_database(EmptyDb, SteamGames[1], <<source_engine_options[1]>>, NoFault)

\* a wiki page whose table repeats a general option in another case and adds
\* one, and a wiki page with a list: an item without a command, two items
\* with the same command in two cases
RunPages ==
    {[sections |-> ("Launch_options" :> [parent_is_heading |-> TRUE,
                      table |-> [present |-> TRUE, wikitable |-> TRUE,
                                 rows |-> <<<<>>,
                                            <<<<" ", "-", "N", "O", "J", "O", "Y", " ">>, <<"d">>>>,
                                            <<<<"-", "w">>, <<"d">>>>>>],
                      list |-> NoList]),
      code_blocks |-> <<>>, paragraphs |-> <<>>],
     [sections |-> ("Parameters" :> [parent_is_heading |-> TRUE,
                      table |-> NoTable,
                      list |-> [present |-> TRUE,
                                items |-> <<<<":", "x">>,
                                            <<"-", "a", ":", " ", "x">>,
                                            <<"-", "A", " ", ":", "y">>>>]]),
      code_blocks |-> <<>>, paragraphs |-> <<>>]}

\* what the wiki answers for a title: one of the pages, or a network error
RunWebs(title) ==
    {(format_game_title_for_wiki(title) :> r) :
        r \in {PageResponse(p) : p \in RunPages} \cup {NetworkError}}

\* one guide site is enough: the call of run never reaches it
RunSites == {[listing |-> StatusResponse(404), pages |-> <<>>]}

InitialTestResults ==
    [games_processed |-> 0, games_with_options |-> 0, total_options_found |-> 0,
     games |-> <<>>]

NoSinkCall == [sink |-> "none", raised |-> FALSE, app_id |-> 0, options |-> <<>>]

(***************************************************************************)
(* SlopScraper.run                                                         *)
(*                                                                         *)
(* The list of games is an input: the provider is a collaborator of the    *)
(* pipeline.  (The call at scraper.py:99 passes max_games=, a keyword      *)
(* get_steam_game_list does not have; the loop is modelled as it runs      *)
(* once a list is there.)  Outside test mode the provider lists a game     *)
(* only when its cache entry is an object (steampowered.py:84).            *)
(***************************************************************************)
Init ==
    /\ call = NoCall
    /\ probe = NoProbe
    /\ args_test \in BOOLEAN
    /\ args_test_db \in BOOLEAN
    /\ supabase \in IF args_test THEN {FALSE} ELSE BOOLEAN
    /\ test_mode = (args_test \/ ~supabase)
    /\ existing_options = {}
    /\ store_calls = {}
    /\ signalled = FALSE
    /\ exit_code = -1
    /\ flushed = {}
    /\ force_refresh \in BOOLEAN
    /\ rate_limit = DefaultRate
    /\ cache \in IF test_mode THEN RunCaches
                ELSE {c \in RunCaches : \A k \in DOMAIN c : c[k].kind = "dict"}
    /\ db \in IF test_mode THEN {EmptyDb} ELSE {PreloadedDb}
    /\ games \in GameLists
    /\ gi = 1
    /\ pc = "main"
    /\ all_options = <<>>
    /\ unique_options = <<>>
    /\ source_calls = <<>>
    /\ sink_call = NoSinkCall
    /\ test_results = InitialTestResults
    /\ game_files = <<>>
    /\ summary_file = FALSE
    /\ cache_saves = 0
    /\ processed = {}
    /\ error = ""

\* a skip whatever force_refresh says
SkipsWhenStored(existing, refresh) == existing # {}

\* line 123: if existing_options and not self.force_refresh
SkipsGame(existing, refresh) == existing # {} /\ ~refresh

\* a lookup of the store in either mode
ReadsAlways(mode) == TRUE

\* line 117: [] if self.test_mode else fetch_steam_launch_options_from_db(...)
ReadsStore(mode) == ~mode

\* lines 109-128: the next game, skipped when the store has options for it
RunNextGame ==
    /\ pc = "loop"
    /\ gi <= Len(games)
    /\ \E query_ok \in BOOLEAN :
        existing_options' =
            IF ReadsStore(test_mode)
            THEN fetch_steam_launch_options_from_db(db, games[gi].appid, query_ok)
            ELSE {}
    /\ store_calls' = IF ReadsStore(test_mode) THEN store_calls \cup {"read"}
                      ELSE store_calls
    /\ UNCHANGED <<signalled, exit_code>>
    /\ IF SkipsGame(existing_options', force_refresh)
       THEN /\ gi' = gi + 1
            /\ UNCHANGED <<pc, all_options, unique_options, source_calls, sink_call>>
       ELSE /\ pc' = "static"
            /\ all_options' = <<>>
            /\ unique_options' = <<>>
            /\ source_calls' = <<>>
            /\ sink_call' = NoSinkCall
            /\ UNCHANGED gi
    /\ UNCHANGED <<call, probe, args_test, args_test_db, supabase, flushed,
                   test_mode, force_refresh, rate_limit, cache, db, games,
                   test_results, game_files, summary_file, cache_saves, processed,
                   error>>

\* lines 131-140: the static extractor, called outside any handler of the loop
RunStatic ==
    /\ pc = "static"
    /\ LET r == IF StaticCallBinds
                THEN fetch_game_specific_options(games[gi].appid, games[gi].name, cache)
                ELSE Raised("TypeError", <<>>)
       IN  /\ source_calls' = Append(source_calls,
                [source |-> "static", raised |-> r.raised, value |-> r.value])
           /\ IF r.raised
              THEN /\ pc' = "except"
                   /\ error' = r.error
                   /\ UNCHANGED all_options
              ELSE /\ pc' = "wiki"
                   /\ all_options' = all_options \o r.value
                   /\ UNCHANGED error
    /\ UNCHANGED <<existing_options, signalled, exit_code, store_calls>>
    /\ UNCHANGED <<call, probe, args_test, args_test_db, supabase, flushed,
                   test_mode, force_refresh, rate_limit, cache, db, games, gi,
                   unique_options, sink_call, test_results, game_files, summary_file,
                   cache_saves, processed>>

\* lines 160-167, one source: what it returns is appended, what it raises is
\* reported and dropped
SourceStep(source_name, r, next_pc) ==
    /\ source_calls' = Append(source_calls,
            [source |-> source_name, raised |-> r.raised, value |-> r.value])
    /\ all_options' = IF r.raised THEN all_options ELSE all_options \o r.value
    /\ pc' = next_pc
    /\ UNCHANGED <<existing_options, signalled, exit_code, store_calls>>
    /\ UNCHANGED <<call, probe, args_test, args_test_db, supabase, flushed,
                   test_mode, force_refresh, rate_limit, cache, db, games, gi,
                   unique_options, sink_call, test_results, game_files, summary_file,
                   cache_saves, processed, error>>

\* lines 144-149
RunWiki ==
    /\ pc = "wiki"
    /\ \E web \in RunWebs(games[gi].name) :
        SourceStep("PCGamingWiki",
                   IF WikiCallBinds
                   THEN fetch_pcgamingwiki_launch_options(games[gi].name, rate_limit, web)
                   ELSE Raised("TypeError", <<>>),
                   "community")

\* lines 150-156
RunCommunity ==
    /\ pc = "community"
    /\ \E site \in RunSites :
        SourceStep("Steam Community",
                   IF CommunityCallBinds
                   THEN fetch_steam_community_launch_options(games[gi].appid, rate_limit, site)
                   ELSE Raised("TypeError", <<>>),
                   "merge")

\* lines 169-176
RunMerge ==
    /\ pc = "merge"
    /\ unique_options' = Deduplicate(all_options)
    /\ pc' = "sink"
    /\ UNCHANGED <<existing_options, signalled, exit_code, store_calls>>
    /\ UNCHANGED <<call, probe, args_test, args_test_db, supabase, flushed,
                   test_mode, force_refresh, rate_limit, cache, db, games, gi,
                   all_options, source_calls, sink_call, test_results, game_files,
                   summary_file, cache_saves, processed, error>>

\* statistics that count every game as one with options
CountEveryGame(results, app_id, title, options) ==
    [games_processed |-> results.games_processed + 1,
     games_with_options |-> results.games_with_options + 1,
     total_options_found |-> results.total_options_found + Len(options),
     games |-> Append(results.games,
                 [app_id |-> app_id, title |-> title, options_count |-> Len(options),
                  options |-> options])]

\* lines 180-191
UpdateTestStatistics(results, app_id, title, options) ==
    [games_processed |-> results.games_processed + 1,
     games_with_options |->
        results.games_with_options + (IF options # <<>> THEN 1 ELSE 0),
     total_options_found |-> results.total_options_found + Len(options),
     games |-> Append(results.games,
                 [app_id |-> app_id, title |-> title, options_count |-> Len(options),
                  options |-> options])]

\* save_game_results: the file of one game, unless the write fails
save_game_results(files, app_id, options, disk_ok) ==
    IF disk_ok
    THEN [a \in DOMAIN files \cup {app_id} |-> IF a = app_id THEN options ELSE files[a]]
    ELSE files

\* lines 178-206: the statistics and the file of the game in test mode, the
\* store in production mode
RunSink ==
    /\ pc = "sink"
    /\ IF test_mode
       THEN /\ test_results' = UpdateTestStatistics(test_results, games[gi].appid,
                                                    games[gi].name, unique_options)
            /\ IF SaveGameResultsCallBinds
               THEN /\ \E disk_ok \in BOOLEAN :
                         game_files' = save_game_results(game_files, games[gi].appid,
                                                         unique_options, disk_ok)
                    /\ sink_call' = [sink |-> "save_game_results", raised |-> FALSE,
                                     app_id |-> games[gi].appid,
                                     options |-> unique_options]
                    /\ pc' = "periodic"
                    /\ UNCHANGED error
               ELSE /\ sink_call' = [sink |-> "save_game_results", raised |-> TRUE,
                                     app_id |-> games[gi].appid,
                                     options |-> unique_options]
                    /\ pc' = "except"
                    /\ error' = "TypeError"
                    /\ UNCHANGED game_files
            /\ UNCHANGED db
       ELSE /\ \E fault \in DbFaults(unique_options) :
                 db' = save_to_database(db, games[gi], unique_options, fault)
            /\ sink_call' = [sink |-> "save_to_database", raised |-> FALSE,
                             app_id |-> games[gi].appid, options |-> unique_options]
            /\ pc' = "periodic"
            /\ UNCHANGED <<test_results, game_files, error>>
    /\ store_calls' = IF test_mode THEN store_calls ELSE store_calls \cup {"write"}
    /\ UNCHANGED <<existing_options, signalled, exit_code>>
    /\ UNCHANGED <<call, probe, args_test, args_test_db, supabase, flushed,
                   test_mode, force_refresh, rate_limit, cache, games, gi,
                   all_options, unique_options, source_calls, summary_file,
                   cache_saves, processed>>

\* save_cache: one more write of the cache file, unless the write fails
save_cache(saves, disk_ok) == IF disk_ok THEN saves + 1 ELSE saves

\* if game['appid'] % 3 == 0
FlushesAfter(game) == game.appid % SaveEvery = 0

\* lines 210-212, and the end of the loop body
RunPeriodicSave ==
    /\ pc = "periodic"
    /\ \E disk_ok \in BOOLEAN :
        cache_saves' = IF FlushesAfter(games[gi])
                       THEN save_cache(cache_saves, disk_ok)
                       ELSE cache_saves
    /\ processed' = processed \cup {gi}
    /\ gi' = gi + 1
    /\ pc' = "loop"
    /\ UNCHANGED <<existing_options, signalled, exit_code, store_calls>>
    /\ UNCHANGED <<call, probe, args_test, args_test_db, supabase, flushed,
                   test_mode, force_refresh, rate_limit, cache, db, games,
                   all_options, unique_options, source_calls, sink_call,
                   test_results, game_files, summary_file, error>>

\* lines 214-216: the summary of a test run
RunSummary ==
    /\ pc = "loop"
    /\ gi > Len(games)
    /\ IF ~test_mode
       THEN /\ pc' = "done"
            /\ exit_code' = 0
            /\ UNCHANGED <<summary_file, error>>
       ELSE IF SaveTestResultsCallBinds
       THEN /\ pc' = "done"
            /\ exit_code' = 0
            /\ \E disk_ok \in BOOLEAN : summary_file' = (summary_file \/ disk_ok)
            /\ UNCHANGED error
       ELSE /\ pc' = "except"
            /\ error' = "TypeError"
            /\ UNCHANGED <<summary_file, exit_code>>
    /\ UNCHANGED <<existing_options, signalled, store_calls>>
    /\ UNCHANGED <<call, probe, args_test, args_test_db, supabase, flushed,
                   test_mode, force_refresh, rate_limit, cache, db, games, gi,
                   all_options, unique_options, source_calls, sink_call,
                   test_results, game_files, cache_saves, processed>>

\* lines 218-224: what there is is saved and the exception goes on to the
\* caller of run; in test mode the call of save_test_results raises first
RunExcept ==
    /\ pc = "except"
    /\ \E disk_ok \in BOOLEAN : cache_saves' = save_cache(cache_saves, disk_ok)
    /\ IF test_mode /\ ~SaveTestResultsCallBinds
       THEN /\ error' = "TypeError"
            /\ flushed' = flushed \cup {"cache"}
            /\ UNCHANGED summary_file
       ELSE /\ \E disk_ok \in BOOLEAN :
                 summary_file' = (summary_file \/ (test_mode /\ disk_ok))
            /\ flushed' = flushed \cup {"cache"} \cup
                               IF test_mode THEN {"summary"} ELSE {}
            /\ UNCHANGED error
    /\ pc' = "raised"
    /\ exit_code' = 1
    /\ UNCHANGED <<existing_options, signalled, store_calls>>
    /\ UNCHANGED <<call, probe, args_test, args_test_db, supabase,
                   test_mode, force_refresh, rate_limit, cache, db, games, gi,
                   all_options, unique_options, source_calls, sink_call,
                   test_results, game_files, processed>>

\* database/supabase.py:124-145, test_database_connection: no store is
\* needed in test mode; without a connection the operator is asked whether
\* to reconnect; otherwise one query of games decides
test_database_connection(mode, connection, reconnected, query_ok) ==
    IF mode THEN TRUE
    ELSE IF ~connection THEN reconnected
    ELSE query_ok

\* main.py:54-65: with --test-db the connection is tested and the process
\* exits with the outcome; otherwise the run starts
MainStart ==
    /\ pc = "main"
    /\ IF args_test_db
       THEN /\ \E reconnected, query_ok \in BOOLEAN :
                 exit_code' =
                     IF test_database_connection(test_mode, supabase,
                                                 reconnected, query_ok)
                     THEN 0 ELSE 1
            /\ pc' = "exited"
       ELSE /\ pc' = "loop"
            /\ UNCHANGED exit_code
    /\ UNCHANGED <<call, probe, args_test, args_test_db, supabase, flushed,
                   test_mode, force_refresh, rate_limit, cache, db, games, gi,
                   all_options, unique_options, source_calls, sink_call,
                   test_results, game_files, summary_file, cache_saves,
                   processed, error, existing_options, signalled>>
    /\ store_calls' = IF args_test_db /\ ~test_mode /\ supabase
                      THEN store_calls \cup {"read"} ELSE store_calls

\* the points of the loop a signal can arrive at
LoopPoints == {"loop", "static", "wiki", "community", "merge", "sink", "periodic"}

\* the points inside the handler of one source (scraper.py:162-167)
SourcePoints == {"wiki", "community"}

\* core/scraper.py:71-84, signal_handler, run by the interpreter inside the
\* statement the signal interrupts: the cache is saved; in test mode the
\* call of save_test_results raises (two arguments for three parameters)
\* and the TypeError surfaces in the interrupted statement: caught with the
\* source when that statement is under the handler of a source, else it
\* goes to the except block of run; in production mode sys.exit(0) ends the
\* process, SystemExit being no Exception
RunSignal ==
    /\ pc \in LoopPoints
    /\ ~signalled
    /\ signalled' = TRUE
    /\ \E disk_ok \in BOOLEAN : cache_saves' = save_cache(cache_saves, disk_ok)
    /\ IF test_mode /\ ~SaveTestResultsCallBinds
       THEN /\ flushed' = flushed \cup {"cache"}
            /\ UNCHANGED <<summary_file, exit_code>>
            /\ \/ /\ pc' = "except"
                  /\ error' = "TypeError"
                  /\ UNCHANGED source_calls
               \/ /\ pc \in SourcePoints
                  /\ pc' = IF pc = "wiki" THEN "community" ELSE "merge"
                  /\ source_calls' = Append(source_calls,
                        [source |-> IF pc = "wiki" THEN "PCGamingWiki"
                                    ELSE "Steam Community",
                         raised |-> TRUE, value |-> <<>>])
                  /\ UNCHANGED error
       ELSE /\ \E disk_ok \in BOOLEAN :
                 summary_file' = (summary_file \/ (test_mode /\ disk_ok))
            /\ flushed' = flushed \cup {"cache"} \cup
                               IF test_mode THEN {"summary"} ELSE {}
            /\ pc' = "exited"
            /\ exit_code' = 0
            /\ UNCHANGED <<error, source_calls>>
    /\ UNCHANGED <<call, probe, args_test, args_test_db, supabase,
                   test_mode, force_refresh, rate_limit, cache, db, games, gi,
                   all_options, unique_options, sink_call,
                   test_results, game_files, processed, existing_options,
                   store_calls>>

Next ==
    \/ MainStart
    \/ RunNextGame
    \/ RunStatic
    \/ RunWiki
    \/ RunCommunity
    \/ RunMerge
    \/ RunSink
    \/ RunPeriodicSave
    \/ RunSummary
    \/ RunExcept
    \/ RunSignal

Spec == Init /\ [][Next]_vars

(***************************************************************************)
(* The extractors called directly.  They keep no state between calls: one  *)
(* call is made per behaviour.                                             *)
(***************************************************************************)
InitExtract ==
    /\ call = NoCall
    /\ probe = NoProbe
    /\ args_test = TRUE
    /\ args_test_db = FALSE
    /\ supabase = FALSE
    /\ existing_options = {}
    /\ store_calls = {}
    /\ signalled = FALSE
    /\ exit_code = -1
    /\ flushed = {}
    /\ test_mode = TRUE
    /\ force_refresh = FALSE
    /\ rate_limit = DefaultRate
    /\ cache = <<>>
    /\ db = EmptyDb
    /\ games = <<>>
    /\ gi = 1
    /\ pc = "done"
    /\ all_options = <<>>
    /\ unique_options = <<>>
    /\ source_calls = <<>>
    /\ sink_call = NoSinkCall
    /\ test_results = InitialTestResults
    /\ game_files = <<>>
    /\ summary_file = FALSE
    /\ cache_saves = 0
    /\ processed = {}
    /\ error = ""

CallStatic ==
    /\ call = NoCall
    /\ \E app_id \in AppIds, title \in StaticTitles, c \in Caches :
        call' = [NoCall EXCEPT !.fn = "fetch_game_specific_options",
                               !.app_id = app_id, !.title = title, !.cache = c,
                               !.result = fetch_game_specific_options(app_id, title, c)]
    /\ UNCHANGED <<runVars, probe>>

CallWiki ==
    /\ call = NoCall
    /\ \E title \in WikiTitles, rl \in RateLimits :
        \E web \in WikiWebs(title, rl) :
            call' = [NoCall EXCEPT !.fn = "fetch_pcgamingwiki_launch_options",
                                   !.title = title, !.rate_limit = rl, !.web = web,
                                   !.result = fetch_pcgamingwiki_launch_options(title, rl, web)]
    /\ UNCHANGED <<runVars, probe>>

CallCommunity ==
    /\ call = NoCall
    /\ \E app_id \in {730}, rl \in {2}, site \in CommunitySites :
        call' = [NoCall EXCEPT !.fn = "fetch_steam_community_launch_options",
                               !.app_id = app_id, !.rate_limit = rl, !.site = site,
                               !.result = fetch_steam_community_launch_options(app_id, rl, site)]
    /\ UNCHANGED <<runVars, probe>>

NextExtract == CallStatic \/ CallWiki \/ CallCommunity

SpecExtract == InitExtract /\ [][NextExtract]_vars

(***************************************************************************)
(* Direct calls of the functions around the loop: one call per behaviour,  *)
(* its input and its output kept in probe.                                 *)
(***************************************************************************)
InitProbe ==
    /\ call = NoCall
    /\ probe = NoProbe
    /\ args_test = TRUE
    /\ args_test_db = FALSE
    /\ supabase = FALSE
    /\ existing_options = {}
    /\ store_calls = {}
    /\ signalled = FALSE
    /\ exit_code = -1
    /\ flushed = {}
    /\ test_mode = TRUE
    /\ force_refresh = FALSE
    /\ rate_limit = DefaultRate
    /\ cache = <<>>
    /\ db = EmptyDb
    /\ games = <<>>
    /\ gi = 1
    /\ pc = "done"
    /\ all_options = <<>>
    /\ unique_options = <<>>
    /\ source_calls = <<>>
    /\ sink_call = NoSinkCall
    /\ test_results = InitialTestResults
    /\ game_files = <<>>
    /\ summary_file = FALSE
    /\ cache_saves = 0
    /\ processed = {}
    /\ error = ""

\* the option lists handed to the sink: none, one, two, two in the other
\* order, two records of one command, a command the store holds already
SinkOptionLists ==
    {<<>>,
     <<general_options[1]>>,
     <<source_engine_options[1]>>,
     <<general_options[1], source_engine_options[3]>>,
     <<source_engine_options[3], general_options[1]>>,
     <<source_engine_options[3], unreal_engine_options[1]>>,
     <<source_engine_options[1], general_options[2]>>}

\* the outcomes of the attempts of one option: failures, then "ok" from the
\* first success on (no attempt is made after it)
AttemptScripts ==
    {s \in [1..Attempts -> Outcomes] :
        \A a \in 1..Attempts : s[a] = "ok" => \A b \in a..Attempts : s[b] = "ok"}

\* one script per option of a list
RECURSIVE ScriptsFor(_)
ScriptsFor(n) ==
    IF n = 0 THEN {<<>>}
    ELSE {Append(s, t) : s \in ScriptsFor(n - 1), t \in AttemptScripts}

\* save_to_database(game, options, supabase) against a store
CallSave ==
    /\ probe = NoProbe
    /\ \E store \in {EmptyDb, PreloadedDb}, game \in {SteamGames[1], SteamGames[2]},
          options \in SinkOptionLists,
          game_outcome \in {"ok", "game_error", "game_raise"} :
        \E script \in ScriptsFor(Len(options)) :
            probe' = [fn |-> "save_to_database", db |-> store, game |-> game,
                      options |-> options, game_outcome |-> game_outcome,
                      script |-> script,
                      raised |-> SaveRaises(game_outcome),
                      run |-> SaveRun(store, game, options, game_outcome, script)]
    /\ UNCHANGED <<runVars, call>>

\* save_to_database called twice with one game and one list, every write
\* landing
CallSaveTwice ==
    /\ probe = NoProbe
    /\ \E store \in {EmptyDb, PreloadedDb}, game \in {SteamGames[1], SteamGames[2]},
          options \in SinkOptionLists :
        LET once == save_to_database(store, game, options, NoFault)
        IN  probe' = [fn |-> "save_twice", db |-> store, game |-> game,
                      options |-> options, once |-> once,
                      twice |-> save_to_database(once, game, options, NoFault)]
    /\ UNCHANGED <<runVars, call>>

MaxSaves == 3

\* one command as two sources report it for two games
SharedOption == general_options[1]

GuideOption ==
    CommunityOption(SharedOption.command, <<"Found in guide: ">> \o GuideA.title)

\* the attempts of the one option of a save in a sequence: written at once,
\* written at the second attempt after the association failed, never
\* associated (the option row landing each time), never written
SequenceScripts ==
    {[a \in 1..Attempts |-> "ok"],
     [a \in 1..Attempts |-> IF a = 1 THEN "join" ELSE "ok"],
     [a \in 1..Attempts |-> "nodata"],
     [a \in 1..Attempts |-> "option"]}

\* the saves of a sequence: a game, one option, what the store does
SequenceSaves ==
    {[game |-> g, options |-> <<o>>, game_outcome |-> "ok", script |-> <<t>>] :
        g \in {SteamGames[1], SteamGames[2]}, o \in {SharedOption, GuideOption},
        t \in SequenceScripts}
    \cup {[game |-> g, options |-> <<o>>, game_outcome |-> "game_error",
           script |-> <<[a \in 1..Attempts |-> "ok"]>>] :
            g \in {SteamGames[1], SteamGames[2]}, o \in {SharedOption, GuideOption}}

\* the store a sequence has reached; it starts empty
StoreAfter(p) == IF p = NoProbe THEN EmptyDb ELSE p.db

SavesBefore(p) == IF p = NoProbe THEN <<>> ELSE p.saves

\* one more save_to_database against the store the saves before it left
CallSaveNext ==
    /\ probe = NoProbe \/ probe.fn = "save_sequence"
    /\ Len(SavesBefore(probe)) < MaxSaves
    /\ \E save \in SequenceSaves :
        probe' = [fn |-> "save_sequence",
                  saves |-> Append(SavesBefore(probe), save),
                  db |-> SaveRun(StoreAfter(probe), save.game, save.options,
                                 save.game_outcome, save.script).db]
    /\ UNCHANGED <<runVars, call>>

NextDb == CallSave \/ CallSaveTwice \/ CallSaveNext

SpecDb == InitProbe /\ [][NextDb]_vars

(***************************************************************************)
(* The connection setup.  The store is what the queries of the setup see:  *)
(* the tables that answer a query and the rows of sources.  What goes      *)
(* wrong during one setup is given by the environment of the call (are     *)
(* there credentials, does create_client raise) and by the faults of the   *)
(* seeding (the count query raises; the insert at a position raises).      *)
(***************************************************************************)
StoreTables == {"games", "launch_options", "game_launch_options", "sources"}

\* the names of the rows seed_sources inserts, in their order
SourceNames ==
    <<"PCGamingWiki", "Steam Community", "Common Source Engine",
      "Common Unity Engine", "Common Unreal Engine", "Common Launch Option">>

\* lines 56-62: one select on games, on launch_options and on sources
verify_db_structure(store) ==
    \A t \in {"games", "launch_options", "sources"} : t \in store.reachable

\* a seeding whatever the count says
AnyCount(count) == count >= 0

\* line 80: if count == 0
IsEmptyTable(count) == count = 0

\* lines 73-122: the count query, then six inserts when the count is 0; an
\* exception ends the seeding where it is and is reported only
seed_sources(store, faults) ==
    IF faults.count = "raise" \/ "sources" \notin store.reachable THEN store
    ELSE IF IsEmptyTable(Len(store.sources))
    THEN [store EXCEPT !.sources =
            store.sources \o
            (IF faults.insert = 0 THEN SourceNames
             ELSE SubSeq(SourceNames, 1, faults.insert - 1))]
    ELSE store

\* lines 28-51
setup_supabase_connection(env, store, faults) ==
    IF ~env.credentials THEN [connection |-> FALSE, store |-> store]
    ELSE IF env.client = "raise" THEN [connection |-> FALSE, store |-> store]
    ELSE IF verify_db_structure(store)
    THEN [connection |-> TRUE, store |-> seed_sources(store, faults)]
    ELSE [connection |-> FALSE, store |-> store]

\* a construction that keeps the mode it was asked for
KeepsMode(connection) == FALSE

\* core/scraper.py:52-55: without a connection the scraper runs in test mode
FallsBack(connection) == ~connection

\* core/scraper.py:20-69: SlopScraper(test_mode=args.test, ...); nothing in
\* it raises: the directory, the cache file and the connection have their
\* own handlers
Construct(requested_test, env, store, faults) ==
    LET setup == IF requested_test THEN [connection |-> FALSE, store |-> store]
                 ELSE setup_supabase_connection(env, store, faults)
        mode == requested_test \/ FallsBack(setup.connection)
    IN  [raised |-> FALSE,
         test_mode |-> mode,
         supabase |-> setup.connection,
         test_results |-> IF mode THEN <<InitialTestResults>> ELSE <<>>,
         store |-> setup.store]

MaxSetups == 3

Environments == [credentials : BOOLEAN, client : {"ok", "raise"}]

SeedFaults == [count : {"ok", "raise"}, insert : 0..Len(SourceNames)]

\* the stores a setup can meet: any tables reachable, sources empty, holding
\* a row of its own, or seeded
Stores ==
    [reachable : SUBSET StoreTables,
     sources : {<<>>, <<"Manual">>, SourceNames}]

\* whether the seeding of a setup ran without a failed query or insert
SeedingClean(store, faults) ==
    faults.count = "ok" /\ faults.insert = 0 /\ "sources" \in store.reachable

\* the first call of setup_supabase_connection against a store
CallSetup ==
    /\ probe = NoProbe
    /\ \E env \in Environments, store \in Stores, faults \in SeedFaults :
        LET r == setup_supabase_connection(env, store, faults)
        IN  probe' = [fn |-> "setup", first |-> store, store |-> r.store,
                      connection |-> r.connection, setups |-> 1,
                      connected |-> r.connection,
                      clean |-> SeedingClean(store, faults)]
    /\ UNCHANGED <<runVars, call>>

\* one more call against the store the calls before it left
CallSetupAgain ==
    /\ probe # NoProbe
    /\ probe.fn = "setup"
    /\ probe.setups < MaxSetups
    /\ \E env \in Environments, faults \in SeedFaults :
        LET r == setup_supabase_connection(env, probe.store, faults)
        IN  probe' = [probe EXCEPT !.store = r.store,
                                   !.connection = r.connection,
                                   !.setups = probe.setups + 1,
                                   !.connected = probe.connected /\ r.connection,
                                   !.clean = probe.clean
                                             /\ SeedingClean(probe.store, faults)]
    /\ UNCHANGED <<runVars, call>>

\* SlopScraper(test_mode=requested, ...) against a store
CallConstruct ==
    /\ probe = NoProbe
    /\ \E requested \in BOOLEAN, env \in Environments, store \in Stores,
          faults \in SeedFaults :
        probe' = [fn |-> "construct", requested |-> requested, env |-> env,
                  first |-> store,
                  result |-> Construct(requested, env, store, faults)]
    /\ UNCHANGED <<runVars, call>>

NextSetup == CallSetup \/ CallSetupAgain \/ CallConstruct

SpecSetup == InitProbe /\ [][NextSetup]_vars

(***************************************************************************)
(* The game-list provider, scrapers/steampowered.py.  The call is kept in  *)
(* probe: its arguments, the cache it was handed (cache0) and the cache as *)
(* it is, the position in the app list, the games kept, and what happened  *)
(* to the last app.                                                        *)
(***************************************************************************)
\* lines 28-30
blocklist_terms ==
    <<<<"d", "l", "c">>,
      <<"s", "o", "u", "n", "d", "t", "r", "a", "c", "k">>,
      <<"b", "e", "t", "a">>,
      <<"d", "e", "m", "o">>,
      <<"t", "e", "s", "t">>,
      <<"a", "d", "u", "l", "t">>,
      <<"h", "e", "n", "t", "a", "i">>,
      <<"x", "x", "x">>,
      <<"m", "a", "t", "u", "r", "e">>,
      <<"e", "x", "p", "a", "n", "s", "i", "o", "n">>,
      <<"t", "o", "o", "l">>,
      <<"s", "o", "f", "t", "w", "a", "r", "e">>>>

\* line 38
known_engines ==
    <<<<"u", "n", "r", "e", "a", "l">>,
      <<"u", "n", "i", "t", "y">>,
      <<"g", "o", "d", "o", "t">>,
      <<"s", "o", "u", "r", "c", "e">>,
      <<"c", "r", "y", "e", "n", "g", "i", "n", "e">>,
      <<"f", "r", "o", "s", "t", "b", "i", "t", "e">>,
      <<"i", "d", " ", "t", "e", "c", "h">>>>

\* line 12: if test_mode and limit <= 10
TestListLimit == 10

\* lines 13-19
TestGameList ==
    <<[appid |-> 570, name |-> T_Dota2],
      [appid |-> 730, name |-> T_CounterStrike2],
      [appid |-> 264710, name |-> T_Subnautica],
      [appid |-> 377840, name |-> <<"F", "i", "n", "a", "l", " ", "F", "a", "n", "t", "a", "s", "y", " ", "I", "X">>],
      [appid |-> 1868140, name |-> <<"D", "a", "v", "e", " ", "t", "h", "e", " ", "D", "i", "v", "e", "r">>]>>

\* lines 53-54: no name, a blocklist term, a character outside ASCII, or no
\* letter at all
NameBlocked(name) ==
    \/ name = <<>>
    \/ \E t \in DOMAIN blocklist_terms : Contains(blocklist_terms[t], Lower(name))
    \/ \E k \in DOMAIN name : name[k] = EnDash
    \/ \A k \in DOMAIN name : name[k] \notin Range(UpperChars) \cup Range(LowerChars)

\* line 57
NameHasEngine(name) ==
    \E e \in DOMAIN known_engines : Contains(known_engines[e], Lower(name))

\* the truth value of a blob: an empty object and null are false
Truthy(blob) ==
    IF blob.kind = "dict" THEN blob.has_title \/ blob.body # <<>>
    ELSE blob.body # <<>>

\* a write of whatever was fetched
AnyData(store_data) == TRUE

\* line 73: if store_data
HasData(store_data) == Truthy(store_data)

\* lines 66-81: the request of the store page of one app; what it answers
\* is raise (network error, HTTP error, a body that is no JSON object),
\* no_entry (no item of the app id), no_data (an item without 'data'), or
\* data.  Gives the store_data of the loop, the cache, and whether the app
\* goes on to the validation
FetchStoreData(entries, key, response) ==
    IF response.kind = "data" /\ HasData(response.data)
    THEN [store_data |-> response.data,
          cache |-> [k \in DOMAIN entries \cup {key} |->
                        IF k = key THEN response.data ELSE entries[k]],
          goes_on |-> TRUE]
    ELSE [store_data |-> EmptyBlob, cache |-> entries, goes_on |-> FALSE]

\* 'coming_soon': True
Item_ComingSoon ==
    <<"'", "c", "o", "m", "i", "n", "g", "_", "s", "o", "o", "n", "'", ":", " ", "T", "r", "u", "e">>

\* lines 84-95: an object that is a game and not coming soon (the blobs of
\* the model hold no 'is_free' and no 'name' item)
ValidStoreData(store_data) ==
    /\ Truthy(store_data)
    /\ store_data.kind = "dict"
    /\ Contains(Body_Plain, store_data.body)
    /\ ~Contains(Item_ComingSoon, store_data.body)

\* lines 60-107, one app of the list
ProcessApp(st, app, response) ==
    LET key == StrKey(app.appid)
        cached == ~st.force_refresh /\ key \in DOMAIN st.cache
        fetch == IF cached
                 THEN [store_data |-> st.cache[key], cache |-> st.cache, goes_on |-> TRUE]
                 ELSE FetchStoreData(st.cache, key, response)
        named == ~NameBlocked(app.name) /\ NameHasEngine(app.name)
        kept == named /\ fetch.goes_on /\ ValidStoreData(fetch.store_data)
    IN  [st EXCEPT
            !.i = st.i + 1,
            !.cache = IF named THEN fetch.cache ELSE st.cache,
            !.filtered = IF kept
                         THEN Append(st.filtered,
                                     [appid |-> app.appid, name |-> app.name])
                         ELSE st.filtered,
            !.last = [app_id |-> app.appid,
                      fetched |-> named /\ ~cached,
                      response |-> response,
                      kept |-> kept]]

MaxLimit == 2

\* the limits of a call: small ones, and one beyond the test list's
Limits == 1..MaxLimit \cup {TestListLimit + 1}

\* what GetAppList answers: an engine name, a name without an engine word,
\* an engine name again
AppList ==
    <<[appid |-> 10, name |-> T_UnrealGold],
      [appid |-> 30, name |-> T_Dota2],
      [appid |-> 20, name |-> T_UnityOfCommand]>>

\* store data: a game, a game that is coming soon, an object without a
\* type, a value that is no object
GameBlob == DictBlob(FALSE, <<>>, Body_Plain)

ComingSoonBlob == DictBlob(FALSE, <<>>, Body_Plain \o <<",", " ">> \o Item_ComingSoon)

ListBlob == [kind |-> "other", has_title |-> FALSE, title_is_str |-> TRUE,
             title |-> <<>>, body |-> <<"[", "1", "]">>]

NullBlob == [kind |-> "other", has_title |-> FALSE, title_is_str |-> TRUE,
             title |-> <<>>, body |-> <<>>]

StoreResponses ==
    {[kind |-> k, data |-> EmptyBlob] : k \in {"raise", "no_entry", "no_data"}}
    \cup {[kind |-> "data", data |-> b] :
            b \in {EmptyBlob, NullBlob, GameBlob, ComingSoonBlob,
                   DictBlob(FALSE, <<>>, Body_Unity), ListBlob}}

\* the caches handed to the provider
ListCaches ==
    {<<>>,
     (StrKey(10) :> GameBlob),
     (StrKey(10) :> DictBlob(FALSE, <<>>, Body_Unreal)) @@ (StrKey(30) :> GameBlob),
     (StrKey(20) :> ListBlob)}

\* lines 8-26 and 114-116: the call; the test list, an empty list when the
\* app list cannot be fetched, or the loop over the apps
CallGameList ==
    /\ probe = NoProbe
    /\ \E c \in ListCaches, refresh \in BOOLEAN, limit \in Limits, mode \in BOOLEAN,
          apps_ok \in BOOLEAN :
        LET st == [fn |-> "get_steam_game_list", cache0 |-> c, cache |-> c,
                   force_refresh |-> refresh, limit |-> limit, test_mode |-> mode,
                   i |-> 1, filtered |-> <<>>, stage |-> "loop", saved |-> FALSE,
                   games |-> <<>>,
                   last |-> [app_id |-> 0, fetched |-> FALSE,
                             response |-> [kind |-> "none", data |-> EmptyBlob],
                             kept |-> FALSE]]
        IN  probe' =
                IF mode /\ limit <= TestListLimit
                THEN [st EXCEPT !.stage = "returned",
                                !.games = SubSeq(TestGameList, 1, limit)]
                ELSE IF ~apps_ok THEN [st EXCEPT !.stage = "returned"]
                ELSE st
    /\ UNCHANGED <<runVars, call>>

\* lines 45-107: the next app, while fewer games than the limit are kept
GameListApp ==
    /\ probe # NoProbe
    /\ probe.fn = "get_steam_game_list"
    /\ probe.stage = "loop"
    /\ probe.i <= Len(AppList)
    /\ Len(probe.filtered) < probe.limit
    /\ \E response \in StoreResponses :
        probe' = ProcessApp(probe, AppList[probe.i], response)
    /\ UNCHANGED <<runVars, call>>

\* lines 110-112: the cache is saved and the games are returned
GameListEnd ==
    /\ probe # NoProbe
    /\ probe.fn = "get_steam_game_list"
    /\ probe.stage = "loop"
    /\ probe.i > Len(AppList) \/ Len(probe.filtered) >= probe.limit
    /\ \E disk_ok \in BOOLEAN :
        probe' = [probe EXCEPT !.stage = "returned", !.saved = disk_ok,
                               !.games = probe.filtered]
    /\ UNCHANGED <<runVars, call>>

NextGameList == CallGameList \/ GameListApp \/ GameListEnd

SpecGameList == InitProbe /\ [][NextGameList]_vars

(***************************************************************************)
(* The cache file, utils/cache.py.  A cache in memory is a list of items   *)
(* (key, value) in the order of the dict; the text of the file is a list   *)
(* of tokens: the braces, the colon, the comma, the white space of         *)
(* indent=2, a key (always a string in the file) and a value.              *)
(***************************************************************************)
Tok(t) == [t |-> t, key |-> 0, blob |-> EmptyBlob]

KeyTok(k) == [t |-> "key", key |-> k, blob |-> EmptyBlob]

ValueTok(b) == [t |-> "value", key |-> 0, blob |-> b]

WhiteSpace == {Tok("newline"), Tok("indent"), Tok("space")}

\* json.dump(cache, f, indent=2): one item per line, the keys written as
\* strings whatever they were
RECURSIVE DumpItems(_, _)
DumpItems(items, i) ==
    <<Tok("indent"), KeyTok(items[i].key.val), Tok(":"), Tok("space"),
      ValueTok(items[i].value)>>
    \o (IF i < Len(items)
        THEN <<Tok(","), Tok("newline")>> \o DumpItems(items, i + 1)
        ELSE <<>>)

Dump(items) ==
    IF items = <<>> THEN <<Tok("{"), Tok("}")>>
    ELSE <<Tok("{"), Tok("newline")>> \o DumpItems(items, 1)
         \o <<Tok("newline"), Tok("}")>>

\* the same object on one line
RECURSIVE CompactItems(_, _)
CompactItems(items, i) ==
    <<KeyTok(items[i].key.val), Tok(":"), ValueTok(items[i].value)>>
    \o (IF i < Len(items) THEN <<Tok(",")>> \o CompactItems(items, i + 1) ELSE <<>>)

Compact(items) == <<Tok("{")>> \o (IF items = <<>> THEN <<>> ELSE CompactItems(items, 1))
                  \o <<Tok("}")>>

\* a dict item set: the value of a key there is replaced where it stands
PutItem(items, key, value) ==
    IF \E k \in DOMAIN items : items[k].key = key
    THEN [k \in DOMAIN items |->
            IF items[k].key = key THEN [key |-> key, value |-> value] ELSE items[k]]
    ELSE Append(items, [key |-> key, value |-> value])

NotJson == [ok |-> FALSE, object |-> FALSE, items |-> <<>>]

\* the members of an object from position i on: key, colon, value, then a
\* comma and more, or the closing brace as the last token
RECURSIVE ParseMembers(_, _, _)
ParseMembers(s, i, acc) ==
    IF i + 3 > Len(s) THEN NotJson
    ELSE IF s[i].t # "key" \/ s[i + 1].t # ":" \/ s[i + 2].t # "value" THEN NotJson
    ELSE LET items == PutItem(acc, StrKey(s[i].key), s[i + 2].blob)
         IN  IF s[i + 3].t = "}"
             THEN IF i + 3 = Len(s)
                  THEN [ok |-> TRUE, object |-> TRUE, items |-> items]
                  ELSE NotJson
             ELSE IF s[i + 3].t = ","
             THEN ParseMembers(s, i + 4, items)
             ELSE NotJson

\* json.load: white space is skipped; a text is an object, a value that is
\* no object, or no JSON
JsonLoad(text) ==
    LET s == SelectSeq(text, LAMBDA tok : tok \notin WhiteSpace)
    IN  IF s = <<>> THEN NotJson
        ELSE IF Len(s) = 1
        THEN IF s[1].t = "value"
             THEN [ok |-> TRUE, object |-> FALSE, items |-> <<>>]
             ELSE NotJson
        ELSE IF s[1].t # "{" THEN NotJson
        ELSE IF Len(s) = 2
        THEN IF s[2].t = "}" THEN [ok |-> TRUE, object |-> TRUE, items |-> <<>>]
             ELSE NotJson
        ELSE ParseMembers(s, 2, <<>>)

\* what a call of load_cache gives: the object loaded, or the value loaded
\* when the file holds JSON that is no object
Loaded(object, items) == [raised |-> FALSE, object |-> object, items |-> items]

\* a load without the handlers of lines 18-23
LoadNoHandler(file) ==
    IF ~file.exists THEN Loaded(TRUE, <<>>)
    ELSE IF ~file.readable \/ ~JsonLoad(file.text).ok
    THEN [raised |-> TRUE, object |-> FALSE, items |-> <<>>]
    ELSE Loaded(JsonLoad(file.text).object, JsonLoad(file.text).items)

\* lines 4-24
load_cache(file) ==
    IF ~file.exists THEN Loaded(TRUE, <<>>)
    ELSE IF ~file.readable THEN Loaded(TRUE, <<>>)
    ELSE IF ~JsonLoad(file.text).ok THEN Loaded(TRUE, <<>>)
    ELSE Loaded(JsonLoad(file.text).object, JsonLoad(file.text).items)

\* lines 26-39: open(cache_file, 'w') empties the file, json.dump writes
\* the text; the file cannot be opened, or the write stops part way, and
\* the exception is reported only
SaveCacheFile(loaded, file, outcome) ==
    LET text == IF loaded.object THEN Dump(loaded.items) ELSE <<ValueTok(NullBlob)>>
    IN  IF outcome = "open_fails" THEN file
        ELSE IF outcome = "write_fails"
        THEN [file EXCEPT !.exists = TRUE, !.readable = TRUE,
                          !.text = SubSeq(text, 1, Len(text) \div 2)]
        ELSE [file EXCEPT !.exists = TRUE, !.readable = TRUE, !.text = text]

MaxEntries == 2

\* the items of a cache file: string keys, a value that is an object or null
FileItems ==
    {[key |-> StrKey(k), value |-> b] : k \in {570, 730}, b \in {GameBlob, NullBlob}}

\* the items of a cache in memory: the key may be the number
MemoryItems ==
    FileItems \cup {[key |-> IntKey(730), value |-> GameBlob]}

\* the caches in memory: a dict holds a key once
MemoryCaches ==
    {l \in UNION {[1..n -> MemoryItems] : n \in 0..MaxEntries} :
        \A i, j \in DOMAIN l : i # j => l[i].key # l[j].key}

ItemLists(items) == UNION {[1..n -> items] : n \in 0..MaxEntries}

\* the cache files: none, one that cannot be read, the text json.dump
\* writes, the same object on one line, a text cut short, a text with a
\* token that does not belong, a value that is no object
CacheFile(form, of, text) ==
    [exists |-> form # "missing", readable |-> form # "unreadable", form |-> form,
     of |-> of, text |-> text]

CacheFiles ==
    {CacheFile("missing", <<>>, <<>>), CacheFile("unreadable", <<>>, Dump(<<>>)),
     CacheFile("value", <<>>, <<ValueTok(NullBlob)>>)}
    \cup {CacheFile("dumped", l, Dump(l)) : l \in ItemLists(FileItems)}
    \cup {CacheFile("compact", l, Compact(l)) : l \in ItemLists(FileItems)}
    \cup UNION {{CacheFile("truncated", l, SubSeq(Dump(l), 1, n)) :
                    n \in 0..(Len(Dump(l)) - 1)} : l \in ItemLists(FileItems)}
    \cup {CacheFile("corrupt", l, <<Tok(",")>> \o Dump(l)) : l \in ItemLists(FileItems)}
    \cup {CacheFile("corrupt", l, Dump(l) \o <<Tok("}")>>) : l \in ItemLists(FileItems)}

SaveOutcomes == {"ok", "open_fails", "write_fails"}

\* load_cache(cache_file)
CallLoad ==
    /\ probe = NoProbe
    /\ \E file \in CacheFiles :
        probe' = [fn |-> "load_cache", file |-> file, result |-> load_cache(file)]
    /\ UNCHANGED <<runVars, call>>

\* save_cache(load_cache(cache_file), cache_file)
CallLoadSave ==
    /\ probe = NoProbe
    /\ \E file \in CacheFiles, outcome \in SaveOutcomes :
        probe' = [fn |-> "load_save", file |-> file, outcome |-> outcome,
                  result |-> load_cache(file),
                  after |-> SaveCacheFile(load_cache(file), file, outcome)]
    /\ UNCHANGED <<runVars, call>>

\* save_cache(cache, cache_file), then load_cache(cache_file)
CallSaveLoad ==
    /\ probe = NoProbe
    /\ \E items \in MemoryCaches, file \in {CacheFile("missing", <<>>, <<>>),
                                                    CacheFile("dumped", <<>>, Dump(<<>>))},
          outcome \in SaveOutcomes :
        LET after == SaveCacheFile(Loaded(TRUE, items), file, outcome)
        IN  probe' = [fn |-> "save_load", file |-> file, items |-> items,
                      outcome |-> outcome, after |-> after,
                      result |-> load_cache(after)]
    /\ UNCHANGED <<runVars, call>>

NextCache == CallLoad \/ CallLoadSave \/ CallSaveLoad

SpecCache == InitProbe /\ [][NextCache]_vars

(***************************************************************************)
(* The loop of run over a list of games, reduced to what decides the       *)
(* periodic save: each game is skipped (the continue of line 125) or       *)
(* processed to the end of the body, where line 211 decides on the flush.  *)
(***************************************************************************)
MaxLoop == 4

\* the app ids of the list of steampowered.py:14-18
LoopAppIds == {570, 730, 264710, 377840, 1868140}

\* lists of games without repetition
LoopLists ==
    {l \in SeqsUpTo(LoopAppIds, MaxLoop) : \A i, j \in DOMAIN l : l[i] = l[j] => i = j}

\* for game in game_pbar
CallLoop ==
    /\ probe = NoProbe
    /\ \E ids \in LoopLists :
        probe' = [fn |-> "loop", ids |-> ids, done |-> <<>>, ended |-> FALSE]
    /\ UNCHANGED <<runVars, call>>

\* one pass of the body: continue at line 125, or on to lines 210-212
LoopGame ==
    /\ probe.fn = "loop"
    /\ Len(probe.done) < Len(probe.ids)
    /\ \E skipped \in BOOLEAN :
        LET appid == probe.ids[Len(probe.done) + 1]
        IN  probe' = [probe EXCEPT !.done =
                        Append(@, [appid |-> appid, skipped |-> skipped,
                                   flushed |-> ~skipped /\ FlushesAfter([appid |-> appid])])]
    /\ UNCHANGED <<runVars, call>>

\* the list is exhausted
LoopEnd ==
    /\ probe.fn = "loop"
    /\ ~probe.ended
    /\ Len(probe.done) = Len(probe.ids)
    /\ probe' = [probe EXCEPT !.ended = TRUE]
    /\ UNCHANGED <<runVars, call>>

NextLoop == CallLoop \/ LoopGame \/ LoopEnd

SpecLoop == InitProbe /\ [][NextLoop]_vars

(***************************************************************************)
(* The statistics of test mode over the games of a run: lines 180-191      *)
(* applied game after game to the merged list of each.                     *)
(***************************************************************************)
MaxUpdates == 3

\* merged lists: none, one, two, three options, a bundle and the general ones
MergedLists ==
    {<<>>, <<general_options[1]>>, <<source_engine_options[1], general_options[2]>>,
     general_options, unity_engine_options \o general_options}

\* the statistics after one more game of the list of steampowered.py:14-18
CallUpdateStatistics ==
    /\ probe = NoProbe \/ probe.fn = "statistics"
    /\ Len(IF probe = NoProbe THEN <<>> ELSE probe.merged) < MaxUpdates
    /\ \E options \in MergedLists :
        LET before == IF probe = NoProbe THEN InitialTestResults ELSE probe.results
            merged == IF probe = NoProbe THEN <<>> ELSE probe.merged
            game   == TestGameList[Len(merged) + 1]
        IN  probe' = [fn |-> "statistics", merged |-> Append(merged, options),
                      results |-> UpdateTestStatistics(before, game.appid, game.name,
                                                       options)]
    /\ UNCHANGED <<runVars, call>>

NextStatistics == CallUpdateStatistics

SpecStatistics == InitProbe /\ [][NextStatistics]_vars

(***************************************************************************)
(* Properties                                                              *)
(***************************************************************************)
\* a command as the claims compare it: trimmed, in lower case
Trimmed(command) == Lower(Strip(command))

\* the records of a list have pairwise distinct trimmed lower-case commands
DistinctCommands(options) ==
    \A i, j \in DOMAIN options :
        i # j => Trimmed(options[i].command) # Trimmed(options[j].command)

\* the positions of a list that hold the first record of their command
FirstPositions(options) ==
    {i \in DOMAIN options :
        \A j \in 1..(i - 1) : Trimmed(options[j].command) # Trimmed(options[i].command)}

\* the records of a list at a set of positions, in their order
RECURSIVE RecordsAt(_, _, _)
RecordsAt(options, positions, i) ==
    IF i > Len(options) THEN <<>>
    ELSE (IF i \in positions THEN <<options[i]>> ELSE <<>>)
         \o RecordsAt(options, positions, i + 1)

\* the outputs of the source calls of the game in hand, one after the other
RECURSIVE Outputs(_)
Outputs(calls) ==
    IF calls = <<>> THEN <<>>
    ELSE (IF Head(calls).raised THEN <<>> ELSE Head(calls).value) \o Outputs(Tail(calls))

NonBlankCommands(options) ==
    \A i \in DOMAIN options : Strip(options[i].command) # <<>>

\* the loop is past the merge of the game in hand
Merged == Len(source_calls) = 3 /\ (pc = "sink" \/ sink_call.sink # "none")

\* C1: for every game processed by run, the merged list handed to the sink
\* holds no two records whose commands are equal once trimmed and lower-cased.
C1_HandedOptionsDistinct ==
    sink_call.sink # "none" => DistinctCommands(sink_call.options)

C1_Witness ==
    /\ sink_call.sink = "save_to_database"
    /\ Len(sink_call.options) < Len(all_options)
    /\ \E i \in DOMAIN sink_call.options : sink_call.options[i].source = "PCGamingWiki"

\* C2: the merge walks the outputs in the order static, wiki, community guide
\* and keeps, for each trimmed lower-case command, the first record with its
\* command text, description and source unchanged; the merged list is the
\* subsequence of the concatenation at the first positions.
C2_FirstKeptInSourceOrder ==
    Merged =>
        /\ [i \in 1..3 |-> source_calls[i].source]
              = <<"static", "PCGamingWiki", "Steam Community">>
        /\ all_options = Outputs(source_calls)
        /\ unique_options
              = RecordsAt(all_options, FirstPositions(all_options), 1)

C2_Witness ==
    /\ Merged
    /\ pc = "periodic"
    /\ source_calls[2].value # <<>>
    /\ \E i \in DOMAIN all_options :
          /\ all_options[i].source = "PCGamingWiki"
          /\ i \notin FirstPositions(all_options)
    /\ \E i \in DOMAIN unique_options : unique_options[i].source = "PCGamingWiki"

\* C3: no error raised while one game is processed aborts the run: when run
\* leaves its loop by an exception, no game of the list comes after the game
\* in hand.  (Runs no signal is delivered to.)
C3_NoGameAbortsRun ==
    (~signalled /\ pc \in {"except", "raised"}) => gi >= Len(games)

\* C4: a source that raises or returns nothing does not keep the remaining
\* sources from being invoked, and the options collected for the game are
\* still merged and taken by the sink.
C4_SourceFailureIsolated ==
    (/\ ~signalled
     /\ \E i \in DOMAIN source_calls :
            /\ source_calls[i].source # "static"
            /\ source_calls[i].raised \/ source_calls[i].value = <<>>)
    => /\ pc \notin {"wiki", "community"} => Len(source_calls) = 3
       /\ pc \in {"periodic", "except", "raised", "done"} =>
            /\ sink_call.sink # "none"
            /\ ~sink_call.raised
            /\ sink_call.options = unique_options

\* C5: the wiki extractor and the community extractor never raise to their
\* caller: every call run makes of them returns a list.
C5_ExtractorsNeverRaise ==
    ~signalled =>
        \A i \in DOMAIN source_calls :
            source_calls[i].source \in {"PCGamingWiki", "Steam Community"}
                => ~source_calls[i].raised

\* C6: in test mode, for game 730 "Counter-Strike 2" with the wiki unreachable
\* and no community guides, the finished run has written game_730.json with
\* the 5 Source-engine options followed by the 3 general options.
C6_CounterStrikeFile ==
    (/\ test_mode
     /\ ~signalled
     /\ pc \in {"done", "raised"}
     /\ games # <<>>
     /\ games[1] = [appid |-> 730, name |-> T_CounterStrike2]
     /\ Len(source_calls) >= 2
     /\ source_calls[2].value = <<>>)
    => /\ 730 \in DOMAIN game_files
       /\ game_files[730] = source_engine_options \o general_options

\* the bundle the priority Source, Unity, Unreal gives a title
TitleBundle(title) ==
    IF MatchesSource(Lower(title)) THEN source_engine_options
    ELSE IF Contains(kw_unity, Lower(title)) THEN unity_engine_options
    ELSE IF Contains(kw_unreal, Lower(title)) THEN unreal_engine_options
    ELSE <<>>

\* C7: the static extractor selects at most one engine bundle, Source before
\* Unity before Unreal, and appends the 3 general options: a title that
\* matches an engine yields the bundle of the first engine it matches and
\* the general options, and every output has 8, 7, 8 or 3 records.
C7_BundleByPriority ==
    (call.fn = "fetch_game_specific_options" /\ ~call.result.raised)
    => /\ Len(call.result.value) \in {3, 7, 8}
       /\ TitleBundle(call.title) # <<>>
            => call.result.value = TitleBundle(call.title) \o general_options

\* the response to the first request of a direct wiki call
FirstResponse == WebGet(call.web, format_game_title_for_wiki(call.title))

\* the response to the request for the title cut at its first colon
SecondResponse ==
    WebGet(call.web, format_game_title_for_wiki(SplitOnce(call.title, <<":">>)[1]))

\* the section of the fetched page under the heading "Launch_options"
FetchedSection == FirstResponse.page.sections["Launch_options"]

WikiPageFetched ==
    /\ call.fn = "fetch_pcgamingwiki_launch_options"
    /\ FirstResponse.kind = "page"

TableAndListFetched ==
    /\ WikiPageFetched
    /\ DOMAIN FirstResponse.page.sections = {"Launch_options"}
    /\ FetchedSection.parent_is_heading
    /\ FetchedSection.table.present
    /\ FetchedSection.table.wikitable
    /\ FetchedSection.list.present
    /\ ListItems(FetchedSection.list.items) # <<>>

\* what each strategy finds on the fetched page
Strategy1 == Method1(FirstResponse.page, potential_section_ids)

Strategy2 == Method2(FirstResponse.page, potential_section_ids)

Strategy3 == Method3(FirstResponse.page.code_blocks)

Strategy4 == Method4(FirstResponse.page)

\* C8 as stated: the strategies run in strict order, strategy k contributing
\* only if the strategies before it found nothing, and a page with a
\* wikitable and a list under the section heading yields only the table rows.
C8_TableRowsOnly ==
    TableAndListFetched =>
        call.result.value = TableRows(Drop(FetchedSection.table.rows, 1))

\* C8, amended: the result of a fetched page is what the first strategy that
\* finds a record finds, and nothing of the strategies after it; a page with
\* a wikitable that yields a record and a list under the section heading
\* yields only the table rows.
C8_FirstProductiveStrategy ==
    WikiPageFetched =>
        /\ Strategy1 # <<>> => call.result.value = Strategy1
        /\ Strategy1 = <<>> /\ Strategy2 # <<>> => call.result.value = Strategy2
        /\ Strategy1 = <<>> /\ Strategy2 = <<>> /\ Strategy3 # <<>>
              => call.result.value = Strategy3
        /\ Strategy1 = <<>> /\ Strategy2 = <<>> /\ Strategy3 = <<>>
              => call.result.value = Strategy4
        /\ TableAndListFetched
              /\ TableRows(Drop(FetchedSection.table.rows, 1)) # <<>>
              => call.result.value = TableRows(Drop(FetchedSection.table.rows, 1))

C8_Witness ==
    /\ TableAndListFetched
    /\ TableRows(Drop(FetchedSection.table.rows, 1)) # <<>>
    /\ call.result.value = TableRows(Drop(FetchedSection.table.rows, 1))
    /\ Strategy2 # <<>>

\* the requests of the direct call, in their order
Requests == SelectSeq(call.result.trace, LAMBDA e : e.ev = "get")

\* C9: on a 404 for a title with a colon and something before it the wiki
\* extractor issues exactly one further request, for the title cut at its
\* first colon, and returns the options of that page; it retries nothing
\* else, so that one extraction issues at most 2 requests.
C9_OneRetryOnColon ==
    call.fn = "fetch_pcgamingwiki_launch_options" =>
        /\ Len(Requests) <= 2
        /\ ~call.result.raised
        /\ IF /\ FirstResponse.kind = "status"
              /\ FirstResponse.status = 404
              /\ Contains(<<":">>, call.title)
              /\ SplitOnce(call.title, <<":">>)[1] # <<>>
           THEN /\ Len(Requests) = 2
                /\ Requests[2].url
                     = format_game_title_for_wiki(SplitOnce(call.title, <<":">>)[1])
                /\ call.result.value
                     = IF SecondResponse.kind = "page"
                       THEN ParseWikiPage(SecondResponse.page)
                       ELSE <<>>
           ELSE /\ Len(Requests) = 1
                /\ FirstResponse.kind # "page" => call.result.value = <<>>

C9_Witness ==
    /\ call.fn = "fetch_pcgamingwiki_launch_options"
    /\ call.title = W_FooBarBaz
    /\ FirstResponse.kind = "status"
    /\ FirstResponse.status = 404
    /\ Len(Requests) = 2
    /\ call.result.value # <<>>

\* C10: no record an extractor emits, and no record of their merge, has an
\* empty or whitespace-only command.
C10_NoBlankCommand ==
    /\ NonBlankCommands(call.result.value)
    /\ NonBlankCommands(Deduplicate(call.result.value))

C10_Witness ==
    /\ call.fn = "fetch_pcgamingwiki_launch_options"
    /\ FirstResponse.kind = "page"
    /\ DOMAIN FirstResponse.page.sections = {"Launch_options"}
    /\ FetchedSection.list.present
    /\ \E i \in DOMAIN FetchedSection.list.items :
          ~KeepItem(ItemCommand(Strip(FetchedSection.list.items[i])))
    /\ call.result.value # <<>>

(***************************************************************************)
(* The database sink                                                       *)
(***************************************************************************)
\* the first attempt of a script that succeeds, 0 when none does
FirstOk(outcomes) ==
    IF \E a \in 1..Attempts : outcomes[a] = "ok"
    THEN CHOOSE a \in 1..Attempts :
            /\ outcomes[a] = "ok"
            /\ \A b \in 1..(a - 1) : outcomes[b] # "ok"
    ELSE 0

\* the entries of the attempt log that belong to the option at position i
LogOf(log, i) == {k \in DOMAIN log : log[k][1] = i}

\* the option is in the store and associated with the game
Written(store, app_id, option) ==
    \E o \in DOMAIN store.options :
        /\ store.options[o].command = option.command
        /\ \E j \in DOMAIN store.joins :
              /\ store.joins[j].game_app_id = app_id
              /\ store.joins[j].launch_option_id = store.options[o].id

\* C11: in save_to_database every option's pair of writes is attempted at
\* most 3 times, the attempts stop at the first one in which both writes
\* succeed, an option that failed 3 times is counted as failed exactly once,
\* and every option of the list is processed whatever happened to the
\* options before it: an option with a succeeding attempt is written.
C11_ThreeAttemptsPerOption ==
    (probe.fn = "save_to_database" /\ probe.game_outcome = "ok") =>
        LET log == probe.run.attempts
            failed == {i \in DOMAIN probe.options : FirstOk(probe.script[i]) = 0}
        IN  /\ \A i \in DOMAIN probe.options :
                  LET n == IF i \in failed THEN Attempts ELSE FirstOk(probe.script[i])
                  IN  /\ Cardinality(LogOf(log, i)) = n
                      /\ {log[k][2] : k \in LogOf(log, i)} = 1..n
                      /\ \A k \in LogOf(log, i) : log[k][3] = probe.script[i][log[k][2]]
                      /\ i \notin failed =>
                            Written(probe.run.db, probe.game.appid, probe.options[i])
            /\ \A k \in DOMAIN log : log[k][2] <= 3
            /\ \A k, m \in DOMAIN log : k < m => log[k][1] <= log[m][1]
            /\ probe.run.error_count = Cardinality(failed)
            /\ probe.run.success_count = Cardinality(DOMAIN probe.options \ failed)

\* the first option fails three times, the second is written at its second
\* attempt
C11_Witness ==
    /\ probe.fn = "save_to_database"
    /\ probe.game_outcome = "ok"
    /\ Len(probe.options) = 2
    /\ FirstOk(probe.script[1]) = 0
    /\ FirstOk(probe.script[2]) = 2
    /\ probe.run.error_count = 1
    /\ probe.run.success_count = 1
    /\ Written(probe.run.db, probe.game.appid, probe.options[2])

\* the commands of a list
Commands(options) == {options[i].command : i \in DOMAIN options}

\* C12: persisting one (game, options) pair twice, every write succeeding,
\* leaves the store as persisting it once does: one games row for the app
\* id, one launch_options row per distinct command, one game_launch_options
\* row per pair of the game and an option.
C12_SaveTwiceIsSaveOnce ==
    probe.fn = "save_twice" =>
        /\ probe.twice = probe.once
        /\ Cardinality({k \in DOMAIN probe.twice.games :
                            probe.twice.games[k].app_id = probe.game.appid}) = 1
        /\ \A c \in Commands(probe.options) :
              /\ Cardinality({k \in DOMAIN probe.twice.options :
                                  probe.twice.options[k].command = c}) = 1
              /\ \A o \in DOMAIN probe.twice.options :
                    probe.twice.options[o].command = c =>
                        Cardinality({j \in DOMAIN probe.twice.joins :
                            /\ probe.twice.joins[j].game_app_id = probe.game.appid
                            /\ probe.twice.joins[j].launch_option_id
                                  = probe.twice.options[o].id}) = 1

\* a game the store holds already, saved twice with a list that names one
\* command twice
C12_Witness ==
    /\ probe.fn = "save_twice"
    /\ probe.db # EmptyDb
    /\ probe.game.appid = 570
    /\ Len(probe.options) = 2
    /\ Cardinality(Commands(probe.options)) = 1
    /\ Len(probe.twice.joins) = 2

(***************************************************************************)
(* The loop of run, the signals and the exit codes                         *)
(***************************************************************************)
\* the lookup of the game in hand has been made and run goes on in its loop
LookupStep ==
    /\ pc = "loop"
    /\ gi <= Len(games)
    /\ pc' \in {"loop", "static"}
    /\ <<gi, pc>>' # <<gi, pc>>

C14_ThreeRelationsVerified ==
    (probe.fn = "setup" /\ probe.connection) =>
        {"games", "launch_options", "game_launch_options"} \subseteq probe.store.reachable

\* the rows of sources are the six seeded ones, each once
SixSources(rows) ==
    /\ Len(rows) = Len(SourceNames)
    /\ \A k \in DOMAIN SourceNames :
          Cardinality({j \in DOMAIN rows : rows[j] = SourceNames[k]}) = 1

C16_FallsBackToTestMode ==
    probe.fn = "construct" =>
        /\ ~probe.result.raised
        /\ probe.result.test_mode => probe.result.test_results = <<InitialTestResults>>
        /\ ~probe.result.test_mode =>
              /\ ~probe.requested
              /\ probe.result.supabase
              /\ probe.env.credentials
              /\ probe.env.client = "ok"
              /\ {"games", "launch_options", "sources"} \subseteq probe.first.reachable
        /\ (~probe.requested /\ ~probe.result.test_mode) = probe.result.supabase

\* production asked for, credentials there, the client made, and sources
\* out of reach: test mode with fresh statistics
C16_Witness ==
    /\ probe.fn = "construct"
    /\ ~probe.requested
    /\ probe.env.credentials
    /\ probe.env.client = "ok"
    /\ "sources" \notin probe.first.reachable
    /\ probe.result.test_mode
    /\ ~probe.result.supabase
    /\ probe.result.test_results = <<InitialTestResults>>

(***************************************************************************)
(* The game-list provider and the cache file                               *)
(***************************************************************************)
\* the provider has gone through one app of the list
AppStep ==
    /\ probe # NoProbe
    /\ probe.fn = "get_steam_game_list"
    /\ probe.stage = "loop"
    /\ probe'.i = probe.i + 1

\* fetched data that is empty: an empty object, null
EmptyData(blob) == ~blob.has_title /\ blob.body = <<>>

\* the fetch of the store metadata of the app failed or brought nothing
FailedFetch(last) ==
    /\ last.fetched
    /\ \/ last.response.kind \in {"raise", "no_entry", "no_data"}
       \/ EmptyData(last.response.data)

\* C17: in the game-list acquisition a failed or empty fetch of the store
\* metadata of an app, under force_refresh too, leaves the cache as it was,
\* the entry of the app included; an app changes no entry but its own, and
\* an entry is written only with non-empty fetched data.
C17_FailedFetchKeepsCache ==
    /\ [][AppStep =>
            LET key == StrKey(AppList[probe.i].appid)
            IN  /\ FailedFetch(probe'.last) => probe'.cache = probe.cache
                /\ DOMAIN probe'.cache \subseteq DOMAIN probe.cache \cup {key}
                /\ \A k \in DOMAIN probe.cache :
                      k # key => k \in DOMAIN probe'.cache
                                 /\ probe'.cache[k] = probe.cache[k]
                /\ probe'.cache # probe.cache =>
                      /\ probe'.last.fetched
                      /\ probe'.last.response.kind = "data"
                      /\ ~EmptyData(probe'.last.response.data)
                      /\ probe'.cache[key] = probe'.last.response.data]_vars
    /\ [][(probe # NoProbe /\ probe.fn = "get_steam_game_list" /\ ~AppStep)
            => probe'.cache = probe.cache]_vars

\* under force_refresh the fetch of an app with an entry failed, and the
\* entry is the one the cache came with
C17_Witness ==
    /\ probe.fn = "get_steam_game_list"
    /\ probe.force_refresh
    /\ FailedFetch(probe.last)
    /\ probe.last.response.kind = "raise"
    /\ StrKey(probe.last.app_id) \in DOMAIN probe.cache0
    /\ probe.cache = probe.cache0
    /\ probe.i > 1

\* the object a text of items stands for: a key keeps its first place and
\* takes its last value
RECURSIVE LastWins(_, _)
LastWins(items, i) ==
    IF i > Len(items) THEN <<>>
    ELSE IF \E j \in 1..(i - 1) : items[j].key = items[i].key
    THEN LastWins(items, i + 1)
    ELSE <<[key |-> items[i].key,
            value |-> items[CHOOSE j \in i..Len(items) :
                                /\ items[j].key = items[i].key
                                /\ \A m \in (j + 1)..Len(items) :
                                      items[m].key # items[i].key].value]>>
         \o LastWins(items, i + 1)

WellFormedFile(file) == file.form \in {"dumped", "compact"}

NoRepeat(items) == \A i, j \in DOMAIN items : i # j => items[i].key # items[j].key

\* C18: for a well-formed cache file X, load_cache returns the object of X,
\* and load_cache followed by save_cache to the file leaves the object of X
\* in it (the very text, when X is as save_cache writes it); load_cache
\* after save_cache(X) returns X, for a cache X with string keys; a
\* missing, unreadable, corrupt or truncated file loads as the empty
\* mapping and no call raises.
C18_CacheRoundTrip ==
    /\ probe.fn \in {"load_cache", "load_save", "save_load"} => ~probe.result.raised
    /\ (probe.fn \in {"load_cache", "load_save"} /\ WellFormedFile(probe.file)) =>
          /\ probe.result.object
          /\ probe.result.items = LastWins(probe.file.of, 1)
    /\ (probe.fn = "load_save" /\ WellFormedFile(probe.file) /\ probe.outcome = "ok") =>
          /\ load_cache(probe.after) = probe.result
          /\ JsonLoad(probe.after.text).items = LastWins(probe.file.of, 1)
          /\ (probe.file.form = "dumped" /\ NoRepeat(probe.file.of))
                => probe.after.text = probe.file.text
    /\ (/\ probe.fn = "save_load"
        /\ probe.outcome = "ok"
        /\ \A i \in DOMAIN probe.items : probe.items[i].key.type = "str") =>
          /\ probe.result.object
          /\ probe.result.items = probe.items
    /\ (/\ probe.fn \in {"load_cache", "load_save"}
        /\ probe.file.form \in {"missing", "unreadable", "corrupt", "truncated"}) =>
          /\ probe.result.object
          /\ probe.result.items = <<>>

\* a file of two items cut short inside its second item was loaded as the
\* empty mapping and saved as {}
C18_Witness ==
    /\ probe.fn = "load_save"
    /\ probe.file.form = "truncated"
    /\ Len(probe.file.of) = 2
    /\ Len(probe.file.text) > Len(Dump(<<probe.file.of[1]>>))
    /\ probe.result.items = <<>>
    /\ probe.outcome = "ok"
    /\ probe.after.text = Dump(<<>>)

(***************************************************************************)
(* The abnormal ends of a run                                              *)
(***************************************************************************)
\* run ended by a signal or by an exception
AbnormalEnd == pc = "raised" \/ (pc = "exited" /\ signalled)

\* C19: on every abnormal end of a run, a signal at any point of the loop
\* or an exception in the loop, the cache and, in test mode, the statistics
\* summary are handed to their writers before the process exits or the
\* exception is raised again.
C19_FlushOnAbnormalEnd ==
    AbnormalEnd =>
        /\ "cache" \in flushed
        /\ test_mode => "summary" \in flushed

\* C20: the exit code is 0 when the run completes, 1 when a signal ends the
\* run, and 1 when --test-db is given and there is no connection.
C20_ExitCodes ==
    /\ pc = "done" => exit_code = 0
    /\ AbnormalEnd /\ signalled => exit_code = 1
    /\ (pc = "exited" /\ args_test_db /\ ~args_test /\ ~supabase) => exit_code = 1

(***************************************************************************)
(* The requests and pauses of one extractor call                           *)
(***************************************************************************)
IsGet(event) == event.ev = "get"

\* the urls requested by the call, in the order of the requests
Requested(trace) == [i \in DOMAIN SelectSeq(trace, IsGet) |-> SelectSeq(trace, IsGet)[i].url]

CommunityCalled == call.fn = "fetch_steam_community_launch_options"

\* the title of the guide holds one of the keywords
KeywordTitled(guide) ==
    guide.has_title /\ \E i \in DOMAIN guide_keywords : Contains(guide_keywords[i], Lower(guide.title))

\* the guides of the listing that can be fetched: a keyword title and an address
Candidates == SelectSeq(call.site.listing.guides, LAMBDA g : KeywordTitled(g) /\ g.has_link)

\* C21: one community extraction requests the listing and then the pages of
\* at most the first 3 guides with a keyword title (and an address), in the
\* order of the listing: at most 4 requests, and none for a guide whose
\* title holds no keyword.
C21_AtMostThreeGuides ==
    CommunityCalled =>
        LET urls == Requested(call.result.trace)
        IN  /\ Len(urls) >= 1 /\ Len(urls) <= 4
            /\ urls[1] = ListingUrl(call.app_id)
            /\ Len(urls) - 1 <= 3
            /\ \A i \in 2..Len(urls) :
                /\ i - 1 <= Len(Candidates)
                /\ urls[i] = Candidates[i - 1].url
            /\ \A i \in DOMAIN call.site.listing.guides :
                LET guide == call.site.listing.guides[i]
                IN  ~KeywordTitled(guide) /\ guide.has_link =>
                        \A j \in 2..Len(urls) : urls[j] # guide.url

\* a listing of four guides with a keyword title and one call that stops
\* after the third
C21_Witness ==
    /\ CommunityCalled
    /\ Len(Candidates) = 4
    /\ Len(Requested(call.result.trace)) = 4
    /\ Requested(call.result.trace)[4] = Candidates[3].url

(***************************************************************************)
(* The guides one community call processed and what their pages hold       *)
(***************************************************************************)
\* the guides the call fetched: the first of the candidates
Processed == Take(Candidates, Len(Requested(call.result.trace)) - 1)

\* the page the site answered for a guide, when it answered with one
GuidePage(guide) == WebGet(call.site.pages, guide.url)

HasGuideBody(guide) ==
    /\ GuidePage(guide).kind = "page"
    /\ GuidePage(guide).status = 200
    /\ GuidePage(guide).page.has_body

\* C22: the scan of paragraph and list texts is decided guide by guide: for
\* every processed guide whose code blocks gave no option, the options of
\* its texts are in the result, whatever the guides before it gave.
C22_FallbackPerGuide ==
    CommunityCalled =>
        \A i \in DOMAIN Processed :
            LET guide == Processed[i]
            IN  (HasGuideBody(guide)
                 /\ GuideCodeOptions(GuidePage(guide).page.code_blocks, guide) = <<>>)
                => Commands(GuideTextOptions(GuidePage(guide).page.paragraphs))
                       \subseteq Commands(call.result.value)

(***************************************************************************)
(* Placeholder records of a community call                                 *)
(***************************************************************************)
IsPlaceholder(option) == StartsWith(option.command, SeeGuidePrefix)

Placeholders(options) == SelectSeq(options, IsPlaceholder)

\* the listing was fetched and read
ListingRead == call.site.listing.kind = "page" /\ call.site.listing.status = 200

\* some processed guide holds an option, in a code block or in a text
SomeGuideOption ==
    \E i \in DOMAIN Processed :
        /\ HasGuideBody(Processed[i])
        /\ \/ GuideCodeOptions(GuidePage(Processed[i]).page.code_blocks, Processed[i]) # <<>>
           \/ GuideTextOptions(GuidePage(Processed[i]).page.paragraphs) # <<>>

\* the placeholders are emitted exactly when a relevant guide exists and no
\* processed guide gave an option, and are never mixed with parsed commands
PlaceholdersExactlyWhen ==
    /\ Placeholders(call.result.value) # <<>>
           <=> (ListingRead /\ Candidates # <<>> /\ ~SomeGuideOption)
    /\ Placeholders(call.result.value) \in {<<>>, call.result.value}

\* the original statement: one placeholder for each relevant guide of the listing
C23_OnePlaceholderPerRelevantGuide ==
    CommunityCalled =>
        /\ PlaceholdersExactlyWhen
        /\ Placeholders(call.result.value) # <<>> =>
               Len(call.result.value) = Len(Candidates)

\* C23: "See guide: <title>" placeholders are emitted exactly when at least
\* one relevant guide exists and no option was extracted from any processed
\* guide, every fetch having failed included; there is then one placeholder
\* for each of the first three relevant guides, in listing order, and a
\* result never holds placeholders and parsed commands together.
C23_PlaceholdersForProcessedGuides ==
    CommunityCalled =>
        /\ PlaceholdersExactlyWhen
        /\ Placeholders(call.result.value) # <<>> =>
               /\ Len(call.result.value) = Len(Processed)
               /\ Len(Processed) <= 3
               /\ \A i \in DOMAIN Processed :
                      call.result.value[i].command = SeeGuidePrefix \o Processed[i].title

\* four relevant guides, every guide request failing, three placeholders
C23_Witness ==
    /\ CommunityCalled
    /\ Len(Candidates) = 4
    /\ \A i \in DOMAIN Processed : GuidePage(Processed[i]).kind = "neterr"
    /\ Len(Placeholders(call.result.value)) = 3

(***************************************************************************)
(* Pauses before requests                                                  *)
(***************************************************************************)
WikiCalled == call.fn = "fetch_pcgamingwiki_launch_options"

\* C25: with a rate limit configured, every page request of the wiki and
\* community extractors (wiki page, wiki retry page, guide listing, guide
\* page) comes directly after one rate-limit pause made for it.
C25_PauseBeforeEveryRequest ==
    ((WikiCalled \/ CommunityCalled) /\ call.rate_limit # 0) =>
        LET trace == call.result.trace
        IN  \A i \in DOMAIN trace :
                IsGet(trace[i]) => (i > 1 /\ trace[i - 1] = SleepEvent)

(***************************************************************************)
(* The engine bundle chosen from the cached blob                           *)
(***************************************************************************)
\* the title names no franchise and no engine
PlainTitle(title) == TitleBundle(title) = <<>>

\* the bundle the serialized text of a blob gives: Unity before Unreal
BlobBundle(blob) ==
    IF Contains(kw_unity, Lower(Repr(blob))) THEN unity_engine_options
    ELSE IF Contains(kw_unreal, Lower(Repr(blob))) THEN unreal_engine_options
    ELSE <<>>

\* C24: for a game whose title matches no Source franchise (and names no
\* engine itself), the static extractor selects the Unity bundle when the
\* blob cached under the game's app id, a string key for the number the game
\* carries, holds "unity" in its serialized text, else the Unreal bundle when
\* it holds "unreal".
C24_BundleFromCachedBlob ==
    (/\ call.fn = "fetch_game_specific_options"
     /\ ~call.result.raised
     /\ StrKey(call.app_id) \in DOMAIN call.cache
     /\ PlainTitle(call.title)
     /\ PlainTitle(DerivedTitle(call.app_id, call.title, call.cache)))
    => call.result.value = BlobBundle(CacheGet(call.cache, call.app_id)) \o general_options

(***************************************************************************)
(* Sequences of saves                                                      *)
(***************************************************************************)
SequenceSaved == probe.fn = "save_sequence"

\* the option row of the save landed: the game row did, and one attempt got
\* as far as the option upsert
OptionLanded(save) ==
    /\ save.game_outcome = "ok"
    /\ \E a \in 1..Attempts : save.script[1][a] # "option"

\* the save persisted its option: one attempt wrote the row and the association
Persisted(save) == save.game_outcome = "ok" /\ FirstOk(save.script[1]) # 0

\* the last save of the sequence whose option row landed for the command, 0 when none
LastLanded(saves, command) ==
    LET landed == {k \in DOMAIN saves : /\ saves[k].options[1].command = command
                                        /\ OptionLanded(saves[k])}
    IN  IF landed = {} THEN 0 ELSE CHOOSE k \in landed : \A m \in landed : m <= k

\* C27: after any sequence of save_to_database calls for any games the
\* launch_options table holds at most one row per exact command; when two
\* games persisted one command with different descriptions and sources, both
\* are associated with that one row, and the row carries the description and
\* source of the most recent write of the option that landed.
C27_OneRowPerCommand ==
    SequenceSaved =>
        /\ \A k, m \in DOMAIN probe.db.options :
              probe.db.options[k].command = probe.db.options[m].command => k = m
        /\ \A k \in DOMAIN probe.saves :
              Persisted(probe.saves[k]) =>
                  Written(probe.db, probe.saves[k].game.appid, probe.saves[k].options[1])
        /\ \A o \in DOMAIN probe.db.options :
              LET last == LastLanded(probe.saves, probe.db.options[o].command)
              IN  /\ last # 0
                  /\ probe.db.options[o].description = probe.saves[last].options[1].description
                  /\ probe.db.options[o].source = probe.saves[last].options[1].source

\* two games persist one command, the second with another description and
\* source: one row, two associations, the second description
C27_Witness ==
    /\ SequenceSaved
    /\ Len(probe.saves) = 2
    /\ probe.saves[1].game # probe.saves[2].game
    /\ probe.saves[1].options = <<SharedOption>>
    /\ probe.saves[2].options = <<GuideOption>>
    /\ Persisted(probe.saves[1]) /\ Persisted(probe.saves[2])
    /\ Len(probe.db.options) = 1
    /\ Len(probe.db.joins) = 2
    /\ probe.db.options[1].source = "Steam Community"

(***************************************************************************)
(* The counts and the rows of one save                                     *)
(***************************************************************************)
SaveCalled == probe.fn = "save_to_database"

\* the rows of the associations a save added to the store
NewJoins(before, after) ==
    {j \in DOMAIN after.joins :
        ~\E k \in DOMAIN before.joins : before.joins[k] = after.joins[j]}

\* C29: at the end of the option loop success_count + error_count is the
\* number of options; an option counts as a success only when one attempt
\* upserted its row and then the association, so every association written
\* refers to an option row of the store and to the game row upserted at the
\* start; when the game upsert reports an error or raises, no option and no
\* association is written; and the function never raises to its caller.
C29_CountsAndReferences ==
    SaveCalled =>
        /\ ~probe.raised
        /\ probe.game_outcome = "ok" =>
              /\ probe.run.success_count + probe.run.error_count = Len(probe.options)
              /\ probe.run.success_count =
                    Cardinality({i \in DOMAIN probe.options :
                                    \E k \in DOMAIN probe.run.attempts :
                                        /\ probe.run.attempts[k][1] = i
                                        /\ probe.run.attempts[k][3] = "ok"})
              /\ \A i \in DOMAIN probe.options :
                    (\E k \in DOMAIN probe.run.attempts :
                        probe.run.attempts[k][1] = i /\ probe.run.attempts[k][3] = "ok")
                    => Written(probe.run.db, probe.game.appid, probe.options[i])
              /\ \A j \in NewJoins(probe.db, probe.run.db) :
                    /\ probe.run.db.joins[j].game_app_id = probe.game.appid
                    /\ GameRows(probe.run.db, probe.game.appid) # {}
                    /\ \E o \in DOMAIN probe.run.db.options :
                          /\ probe.run.db.options[o].id = probe.run.db.joins[j].launch_option_id
                          /\ probe.run.db.options[o].command \in Commands(probe.options)
        /\ probe.game_outcome # "ok" =>
              /\ probe.run.db = probe.db
              /\ probe.run.success_count = 0 /\ probe.run.error_count = 0

\* a store that holds a game already; the association of the first option
\* fails three times after its row landed, the second option is written
C29_Witness ==
    /\ SaveCalled
    /\ probe.db # EmptyDb
    /\ probe.game.appid = 730
    /\ probe.game_outcome = "ok"
    /\ Len(probe.options) = 2
    /\ \A a \in 1..Attempts : probe.script[1][a] = "join"
    /\ probe.script[2][1] = "ok"
    /\ Len(probe.run.db.options) = 3
    /\ Cardinality(NewJoins(probe.db, probe.run.db)) = 1
    /\ probe.run.success_count = 1 /\ probe.run.error_count = 1

(***************************************************************************)
(* The cadence of the periodic save                                        *)
(***************************************************************************)
IsProcessed(pass) == ~pass.skipped

\* the games of a finished loop that were processed, in their order
ProcessedGames == SelectSeq(probe.done, IsProcessed)

\* C26: the cache is flushed after every third processed game: a run that
\* processes at least 3 games calls save_cache in the loop at least once,
\* and no more than 3 games are processed from one flush to the next.
C26_FlushEveryThirdGame ==
    (probe.fn = "loop" /\ probe.ended) =>
        /\ Len(ProcessedGames) >= 3 => \E i \in DOMAIN ProcessedGames : ProcessedGames[i].flushed
        /\ \A i, j \in DOMAIN ProcessedGames :
              (/\ i < j
               /\ ProcessedGames[i].flushed
               /\ ProcessedGames[j].flushed
               /\ \A k \in (i + 1)..(j - 1) : ~ProcessedGames[k].flushed)
              => j - i <= 3

(***************************************************************************)
(* The statistics of test mode                                             *)
(***************************************************************************)
RECURSIVE SumCounts(_)
SumCounts(entries) ==
    IF entries = <<>> THEN 0 ELSE Head(entries).options_count + SumCounts(Tail(entries))

\* the aggregate agrees with its entries
Consistent(results) ==
    /\ results.games_processed = Len(results.games)
    /\ results.games_with_options =
          Cardinality({i \in DOMAIN results.games : results.games[i].options_count >= 1})
    /\ results.total_options_found = SumCounts(results.games)
    /\ \A i \in DOMAIN results.games :
          results.games[i].options_count = Len(results.games[i].options)

\* C28: in test mode the statistics are consistent after every processed
\* game: games_processed is the number of entries, games_with_options the
\* number of entries with at least one option, total_options_found the sum
\* of the counts, and the count of every entry the length of the merged list
\* of its game.
C28_StatisticsConsistent ==
    /\ Consistent(test_results)
    /\ probe.fn = "statistics" =>
          /\ Consistent(probe.results)
          /\ Len(probe.results.games) = Len(probe.merged)
          /\ \A i \in DOMAIN probe.merged :
                /\ probe.results.games[i].options = probe.merged[i]
                /\ probe.results.games[i].app_id = TestGameList[i].appid

\* three games: one without options, two with
C28_Witness ==
    /\ probe.fn = "statistics"
    /\ probe.results.games_processed = 3
    /\ probe.results.games_with_options = 2
    /\ probe.results.total_options_found = 4
    /\ probe.merged[1] = <<>>

(***************************************************************************)
(* The two sinks                                                           *)
(***************************************************************************)
\* C30: the two sinks exclude each other for a whole run: in test mode,
\* asked for or fallen back to, the run makes no read and no write of the
\* store; in production mode it writes no file of a game and no summary
\* file; and the mode set by the construction never changes.
C30_SinksExclusive ==
    /\ [](test_mode =>
            /\ store_calls = {}
            /\ db = EmptyDb
            /\ existing_options = {}
            /\ sink_call.sink # "save_to_database")
    /\ [](~test_mode =>
            /\ game_files = <<>>
            /\ ~summary_file
            /\ sink_call.sink # "save_game_results")
    /\ [](test_mode = (args_test \/ ~supabase))
    /\ [][test_mode' = test_mode]_vars

\* production was asked for, there is no connection, and the loop has
\* reached the sink of the first game without a call on the store
C30_Witness ==
    /\ ~args_test
    /\ test_mode
    /\ sink_call.sink = "save_game_results"
    /\ store_calls = {}
    /\ db = EmptyDb
====
